---- MODULE Spec2Model ----
(***************************************************************************)
(* LogLens: the source / normalization / filter pipeline.                  *)
(*                                                                         *)
(* The pipeline is a stack of Python generators driven by one consumer:    *)
(*   consumer -> filter_logs -> fetch_logs -> JournalctlSource.read()      *)
(* Each generator has a position (new, running, suspended at its yield,    *)
(* finished); exactly one frame of the stack runs at a time ("active").    *)
(* The journal child process is the only concurrent party.                 *)
(***************************************************************************)
EXTENDS Integers, Sequences, FiniteSets, TLC

\* ------------------------------------------------------------------------
\* Bounds of the model
\* ------------------------------------------------------------------------
\* lines the journal child writes to its stdout before end-of-stream, when
\* read() is driven directly and when it feeds fetch_logs
MaxLines == 7
MaxFetchLines == 3
\* lines among them that give no event (blank or malformed)
MaxSkipped == 2
\* largest limit passed to fetch_logs
MaxLimit == 2
\* longest record list handed to filter_logs directly
MaxRecords == 2
\* longest time (seconds) the child takes to exit after SIGTERM
MaxTermDelay == 6

\* ------------------------------------------------------------------------
\* Python values: None, int, str (a sequence of one-character strings),
\* dict / other.  All values have the same shape so that they compare.
\* ------------------------------------------------------------------------
PyNone == [t |-> "none", i |-> 0, s |-> <<>>]
PyAbsent == [t |-> "absent", i |-> 0, s |-> <<>>]
PyInt(n) == [t |-> "int", i |-> n, s |-> <<>>]
PyStr(cs) == [t |-> "str", i |-> 0, s |-> cs]

UPPER == <<"A","B","C","D","E","F","G","H","I","J","K","L","M",
           "N","O","P","Q","R","S","T","U","V","W","X","Y","Z">>
LOWER == <<"a","b","c","d","e","f","g","h","i","j","k","l","m",
           "n","o","p","q","r","s","t","u","v","w","x","y","z">>
DIGITS == <<"0","1","2","3","4","5","6","7","8","9">>
WHITESPACE == {" ", "\n", "\t", "\r"}

\* str.lower(), one character
lower_char(c) ==
  IF \E k \in 1..26 : UPPER[k] = c
  THEN LOWER[CHOOSE k \in 1..26 : UPPER[k] = c]
  ELSE c

\* str.lower()
str_lower(cs) == [k \in 1..Len(cs) |-> lower_char(cs[k])]

\* needle in hay
str_contains(needle, hay) ==
  \E k \in 0..(Len(hay) - Len(needle)) :
     SubSeq(hay, k + 1, k + Len(needle)) = needle

\* not s.strip(): nothing but whitespace
str_blank(cs) == \A k \in 1..Len(cs) : cs[k] \in WHITESPACE

\* characters that are digits to str.isdigit() but not decimal digits to
\* int(): "^2" stands for the one character SUPERSCRIPT TWO (U+00B2)
OTHER_DIGITS == {"^2"}

\* str.isdigit()
str_isdigit(cs) ==
  /\ Len(cs) > 0
  /\ \A k \in 1..Len(cs) :
        \/ \E d \in 1..10 : DIGITS[d] = cs[k]
        \/ cs[k] \in OTHER_DIGITS

\* int(s) reads s: decimal digits only (s is known to satisfy isdigit)
int_reads(cs) == \A k \in 1..Len(cs) : cs[k] \notin OTHER_DIGITS

digit_value(c) == (CHOOSE d \in 1..10 : DIGITS[d] = c) - 1

\* int(s) for a string of decimal digits
RECURSIVE digits_to_int(_)
digits_to_int(cs) ==
  IF Len(cs) = 0 THEN 0
  ELSE 10 * digits_to_int(SubSeq(cs, 1, Len(cs) - 1)) + digit_value(cs[Len(cs)])

\* ------------------------------------------------------------------------
\* severity.py
\* ------------------------------------------------------------------------
PRIORITY_LABELS ==
  [n \in 0..7 |->
     CASE n = 0 -> <<"E","M","E","R","G">>
       [] n = 1 -> <<"A","L","E","R","T">>
       [] n = 2 -> <<"C","R","I","T">>
       [] n = 3 -> <<"E","R","R","O","R">>
       [] n = 4 -> <<"W","A","R","N","I","N","G">>
       [] n = 5 -> <<"N","O","T","I","C","E">>
       [] n = 6 -> <<"I","N","F","O">>
       [] n = 7 -> <<"D","E","B","U","G">>]

LABEL_ALIASES ==
  { <<<<"e","r","r">>, 3>>,
    <<<<"w","a","r","n">>, 4>>,
    <<<<"c","r","i","t","i","c","a","l">>, 2>>,
    <<<<"e","m","e","r","g","e","n","c","y">>, 0>> }

\* the dict as a set of <<key, value>> pairs; update() overrides by key
LABEL_PRIORITIES ==
  LET base == { <<str_lower(PRIORITY_LABELS[n]), n>> : n \in 0..7 }
  IN  { p \in base : ~ \E a \in LABEL_ALIASES : a[1] = p[1] } \cup LABEL_ALIASES

Ok(v) == [ok |-> TRUE, v |-> v, err |-> "none"]
Fail(e) == [ok |-> FALSE, v |-> 0, err |-> e]

priority_to_label(priority) ==
  IF priority \notin DOMAIN PRIORITY_LABELS
  THEN [ok |-> FALSE, v |-> <<>>, err |-> "ValueError"]
  ELSE [ok |-> TRUE, v |-> PRIORITY_LABELS[priority], err |-> "none"]

\* a lookup of the label as written, without label.lower()
label_to_priority_case_sensitive(label) ==
  IF label.t = "int"
  THEN IF 0 <= label.i /\ label.i <= 7 THEN Ok(label.i) ELSE Fail("out_of_range")
  ELSE IF str_isdigit(label.s)
  THEN IF ~ int_reads(label.s) THEN Fail("invalid_literal")
       ELSE IF digits_to_int(label.s) <= 7 THEN Ok(digits_to_int(label.s))
       ELSE Fail("out_of_range")
  ELSE IF ~ \E p \in LABEL_PRIORITIES : p[1] = label.s
       THEN Fail("unknown_label")
       ELSE Ok((CHOOSE p \in LABEL_PRIORITIES : p[1] = label.s)[2])

\* the three errors are all ValueError; they differ in the message:
\* "Invalid priority number" (out_of_range), "Unknown severity label"
\* (unknown_label) and the message of int() (invalid_literal)
label_to_priority(label) ==
  IF label.t = "int"
  THEN IF 0 <= label.i /\ label.i <= 7 THEN Ok(label.i) ELSE Fail("out_of_range")
  ELSE IF str_isdigit(label.s)
  THEN IF ~ int_reads(label.s) THEN Fail("invalid_literal")
       ELSE IF digits_to_int(label.s) <= 7 THEN Ok(digits_to_int(label.s))
       ELSE Fail("out_of_range")
  ELSE IF ~ \E p \in LABEL_PRIORITIES : p[1] = str_lower(label.s)
       THEN Fail("unknown_label")
       ELSE Ok((CHOOSE p \in LABEL_PRIORITIES : p[1] = str_lower(label.s))[2])

\* a threshold test that leaves out the threshold itself
is_at_least_severity_strict(priority, min_severity) ==
  LET threshold == label_to_priority(min_severity).v
  IN  priority < threshold

\* is_at_least_severity is only called with a threshold that resolves
is_at_least_severity(priority, min_severity) ==
  LET threshold == label_to_priority(min_severity).v
  IN  priority <= threshold

\* ------------------------------------------------------------------------
\* Python conversions used by the normalizer
\* ------------------------------------------------------------------------
\* "not v"
py_falsy(v) ==
  \/ v.t \in {"none", "absent"}
  \/ v.t = "str" /\ v.s = <<>>
  \/ v.t = "int" /\ v.i = 0

RECURSIVE nat_to_digits(_)
nat_to_digits(n) ==
  IF n < 10 THEN <<DIGITS[n + 1]>>
  ELSE nat_to_digits(n \div 10) \o <<DIGITS[(n % 10) + 1]>>

\* str(v)
py_str(v) ==
  CASE v.t = "str" -> v.s
    [] v.t = "int" -> IF v.i < 0 THEN <<"-">> \o nat_to_digits(0 - v.i)
                      ELSE nat_to_digits(v.i)
    [] OTHER -> <<"N","o","n","e">>

RECURSIVE str_lstrip(_)
str_lstrip(cs) ==
  IF Len(cs) > 0 /\ cs[1] \in WHITESPACE THEN str_lstrip(Tail(cs)) ELSE cs

RECURSIVE str_rstrip(_)
str_rstrip(cs) ==
  IF Len(cs) > 0 /\ cs[Len(cs)] \in WHITESPACE
  THEN str_rstrip(SubSeq(cs, 1, Len(cs) - 1)) ELSE cs

\* str.strip()
str_strip(cs) == str_rstrip(str_lstrip(cs))

\* a decimal literal as int() reads it: digits, with single underscores
\* allowed between digits
str_isdecimal(cs) ==
  /\ Len(cs) > 0
  /\ \A k \in 1..Len(cs) : cs[k] = "_" \/ str_isdigit(<<cs[k]>>)
  /\ cs[1] # "_" /\ cs[Len(cs)] # "_"
  /\ \A k \in 1..(Len(cs) - 1) : ~ (cs[k] = "_" /\ cs[k + 1] = "_")

\* a digit string without its leading zeros ("0" for zero)
RECURSIVE dec_canon(_)
dec_canon(ds) ==
  IF Len(ds) > 1 /\ ds[1] = "0" THEN dec_canon(Tail(ds)) ELSE ds

\* a < b for two digit strings without leading zeros
RECURSIVE dec_less(_, _)
dec_less(a, b) ==
  IF Len(a) # Len(b) THEN Len(a) < Len(b)
  ELSE IF Len(a) = 0 THEN FALSE
  ELSE IF a[1] # b[1] THEN digit_value(a[1]) < digit_value(b[1])
  ELSE dec_less(Tail(a), Tail(b))

\* an integer as sign and digits (Python integers have no width)
signed_digits(neg, digs) ==
  [ok |-> TRUE, neg |-> neg /\ digs # <<"0">>, digs |-> digs, err |-> "none"]

\* an unsigned decimal literal with the sign that stood before it
int_literal(neg, lit) ==
  IF str_isdecimal(lit)
  THEN signed_digits(neg, dec_canon(SelectSeq(lit, LAMBDA c : c # "_")))
  ELSE [ok |-> FALSE, neg |-> FALSE, digs |-> <<>>, err |-> "ValueError"]

\* int(v) as sign and digits: an int is itself; a string is stripped and read
\* as an optionally signed decimal literal (ValueError otherwise); anything
\* else is a TypeError
py_int_parse(v) ==
  CASE v.t = "int" ->
         signed_digits(v.i < 0, nat_to_digits(IF v.i < 0 THEN 0 - v.i ELSE v.i))
    [] v.t = "str" ->
         IF Len(str_strip(v.s)) > 0 /\ str_strip(v.s)[1] \in {"-", "+"}
         THEN int_literal(str_strip(v.s)[1] = "-", Tail(str_strip(v.s)))
         ELSE int_literal(FALSE, str_strip(v.s))
    [] OTHER -> [ok |-> FALSE, neg |-> FALSE, digs |-> <<>>, err |-> "TypeError"]

\* the number of a parsed integer
int_value(p) ==
  IF p.ok
  THEN Ok(IF p.neg THEN 0 - digits_to_int(p.digs) ELSE digits_to_int(p.digs))
  ELSE Fail(p.err)

\* int(v) as a number
py_int(v) == int_value(py_int_parse(v))

\* datetime.fromtimestamp(s) for a whole number of seconds given as sign and
\* digits (UTC): beyond the years 1..9999 it is a ValueError, beyond a 64-bit
\* time_t an OverflowError
MAX_YEAR_S == <<"2","5","3","4","0","2","3","0","0","8","0","0">>
MIN_YEAR_S == <<"6","2","1","3","5","5","9","6","8","0","0">>
TIME_T_S == <<"9","2","2","3","3","7","2","0","3","6","8","5","4","7","7","5",
              "8","0","7">>

datetime_fromtimestamp(neg, digs) ==
  IF ~ dec_less(digs, TIME_T_S) THEN "OverflowError"
  ELSE IF neg /\ ~ dec_less(digs, MIN_YEAR_S) THEN "ValueError"
  ELSE IF ~ neg /\ ~ dec_less(digs, MAX_YEAR_S) THEN "ValueError"
  ELSE "ok"

\* the whole seconds of "microseconds / 1_000_000"
us_to_s(digs) ==
  IF Len(digs) <= 6 THEN <<"0">> ELSE SubSeq(digs, 1, Len(digs) - 6)

\* "a or b"
py_or(a, b) == IF py_falsy(a) THEN b ELSE a

\* datetime.fromisoformat(s) on the extended date form YYYY-MM-DD: TRUE when
\* s is such a date of the calendar
date_fromisoformat(cs) ==
  /\ Len(cs) = 10 /\ cs[5] = "-" /\ cs[8] = "-"
  /\ str_isdigit(SubSeq(cs, 1, 4) \o SubSeq(cs, 6, 7) \o SubSeq(cs, 9, 10))
  /\ LET year  == digits_to_int(SubSeq(cs, 1, 4))
         month == digits_to_int(SubSeq(cs, 6, 7))
         day   == digits_to_int(SubSeq(cs, 9, 10))
         leap  == (year % 4 = 0 /\ year % 100 # 0) \/ year % 400 = 0
         days  == IF month = 2 THEN (IF leap THEN 29 ELSE 28)
                  ELSE IF month \in {4, 6, 9, 11} THEN 30 ELSE 31
     IN  /\ year >= 1
         /\ month \in 1..12
         /\ day \in 1..days

\* ------------------------------------------------------------------------
\* model.py
\* ------------------------------------------------------------------------
NoRecord ==
  [timestamp |-> [kind |-> "none", us |-> <<>>], severity_num |-> 0,
   severity_label |-> <<>>, message |-> <<>>, raw |-> 0]

\* a LogRecord whose __post_init__ checks nothing
LogRecord_unchecked(timestamp, severity_num, severity_label, message, raw) ==
  [ok |-> TRUE,
   rec |-> [timestamp |-> timestamp, severity_num |-> severity_num,
            severity_label |-> severity_label, message |-> message,
            raw |-> raw],
   err |-> "none"]

\* LogRecord(...) with __post_init__: a severity_num outside 0..7 is a ValueError
LogRecord(timestamp, severity_num, severity_label, message, raw) ==
  IF ~ (0 <= severity_num /\ severity_num <= 7)
  THEN [ok |-> FALSE, rec |-> NoRecord, err |-> "ValueError"]
  ELSE [ok |-> TRUE,
        rec |-> [timestamp |-> timestamp, severity_num |-> severity_num,
                 severity_label |-> severity_label, message |-> message,
                 raw |-> raw],
        err |-> "none"]

RawEvent(data, source_type) == [data |-> data, source_type |-> source_type]

\* ------------------------------------------------------------------------
\* normalize.py
\* ------------------------------------------------------------------------
ZeroNormStats ==
  [total |-> 0, missing_priority |-> 0, invalid_priority |-> 0,
   missing_timestamp |-> 0, missing_message |-> 0]

\* a journal entry as parsed by json.loads: a dict with (possibly absent)
\* fields, or some other JSON value
JournalDict(message, priority, ts, ts2, cursor) ==
  [isdict |-> TRUE, MESSAGE |-> message, PRIORITY |-> priority,
   SOURCE_REALTIME_TIMESTAMP |-> ts, REALTIME_TIMESTAMP |-> ts2,
   CURSOR |-> cursor]
NotADict(cursor) ==
  [isdict |-> FALSE, MESSAGE |-> PyAbsent, PRIORITY |-> PyAbsent,
   SOURCE_REALTIME_TIMESTAMP |-> PyAbsent, REALTIME_TIMESTAMP |-> PyAbsent,
   CURSOR |-> cursor]

\* isinstance(data, dict) and isinstance(data, str)
is_dict(data) == "isdict" \in DOMAIN data /\ data.isdict
is_str(data) == "t" \in DOMAIN data /\ data.t = "str"

\* data.get(key, default): the value, or the default when the key is absent
dict_get(data, key, default) ==
  IF key \in DOMAIN data /\ data[key].t # "absent" THEN data[key] ELSE default

\* the timestamp field of a journal entry: the fallback field is read only
\* when the primary field is None
journald_timestamp_us(data) ==
  IF dict_get(data, "SOURCE_REALTIME_TIMESTAMP", PyNone).t = "none"
  THEN dict_get(data, "REALTIME_TIMESTAMP", PyNone)
  ELSE dict_get(data, "SOURCE_REALTIME_TIMESTAMP", PyNone)

\* the timestamp string is kept as its origin: the microsecond value it was
\* formatted from (sign and digits), or the wall clock.  Only ValueError,
\* TypeError and OSError are caught: an OverflowError leaves the function.
journald_timestamp(timestamp_us, parsed, made, stats) ==
  IF timestamp_us.t # "none" /\ parsed.ok /\ made = "ok"
  THEN [err |-> "none",
        timestamp |-> [kind |-> "epoch_us",
                       us |-> IF parsed.neg THEN <<"-">> \o parsed.digs
                              ELSE parsed.digs],
        stats |-> stats]
  ELSE IF timestamp_us.t # "none" /\ parsed.ok /\ made = "OverflowError"
  THEN [err |-> "OverflowError", timestamp |-> [kind |-> "none", us |-> <<>>],
        stats |-> stats]
  ELSE [err |-> "none", timestamp |-> [kind |-> "now", us |-> <<>>],
        stats |-> [stats EXCEPT !.missing_timestamp = @ + 1]]

\* int(timestamp_us) / 1_000_000 and datetime.fromtimestamp
journald_timestamp_parsed(timestamp_us, parsed, stats) ==
  journald_timestamp(timestamp_us, parsed,
                     datetime_fromtimestamp(parsed.neg, us_to_s(parsed.digs)),
                     stats)

_extract_journald_timestamp(data, stats) ==
  journald_timestamp_parsed(journald_timestamp_us(data),
                            py_int_parse(journald_timestamp_us(data)), stats)

\* a priority resolution that counts an out-of-range number as missing
journal_priority_range_as_missing(priority_field, parsed, stats) ==
  IF priority_field.t = "none"
  THEN [severity_num |-> 6,
        stats |-> [stats EXCEPT !.missing_priority = @ + 1]]
  ELSE IF ~ parsed.ok
  THEN [severity_num |-> 6,
        stats |-> [stats EXCEPT !.invalid_priority = @ + 1]]
  ELSE IF ~ (0 <= parsed.v /\ parsed.v <= 7)
  THEN [severity_num |-> 6,
        stats |-> [stats EXCEPT !.missing_priority = @ + 1]]
  ELSE [severity_num |-> parsed.v, stats |-> stats]

\* a priority resolution that counts a number outside 0..7 both as missing
\* and as invalid
journal_priority_counts_both(priority_field, parsed, stats) ==
  IF priority_field.t = "none"
  THEN [severity_num |-> 6,
        stats |-> [stats EXCEPT !.missing_priority = @ + 1]]
  ELSE IF ~ parsed.ok
  THEN [severity_num |-> 6,
        stats |-> [stats EXCEPT !.invalid_priority = @ + 1]]
  ELSE IF ~ (0 <= parsed.v /\ parsed.v <= 7)
  THEN [severity_num |-> 6,
        stats |-> [stats EXCEPT !.missing_priority = @ + 1,
                                !.invalid_priority = @ + 1]]
  ELSE [severity_num |-> parsed.v, stats |-> stats]

\* the priority of a journal entry, parsed being int(priority_field): None
\* counts as missing; a value int() rejects, or a number outside 0..7, counts
\* as invalid; both default to 6
journal_priority(priority_field, parsed, stats) ==
  IF priority_field.t = "none"
  THEN [severity_num |-> 6,
        stats |-> [stats EXCEPT !.missing_priority = @ + 1]]
  ELSE IF ~ parsed.ok \/ ~ (0 <= parsed.v /\ parsed.v <= 7)
  THEN [severity_num |-> 6,
        stats |-> [stats EXCEPT !.invalid_priority = @ + 1]]
  ELSE [severity_num |-> parsed.v, stats |-> stats]

\* the message of a journal entry and the statistics after it
journal_message(message0, stats) ==
  [message |-> py_str(message0),
   stats |-> IF py_falsy(message0)
             THEN [stats EXCEPT !.missing_message = @ + 1] ELSE stats]

\* LogRecord(...) of a journal entry, or the error that left the timestamp
\* extraction
journal_record(ts, made) ==
  IF ts.err # "none"
  THEN [ok |-> FALSE, rec |-> NoRecord, err |-> ts.err, stats |-> ts.stats]
  ELSE [ok |-> made.ok, rec |-> made.rec, err |-> made.err, stats |-> ts.stats]

\* label and timestamp of a journal entry whose message and priority are
\* resolved
journal_labelled(data, message, severity_num, ts) ==
  journal_record(ts,
                 LogRecord(ts.timestamp, severity_num,
                           priority_to_label(severity_num).v, message, data))

journal_resolved(data, message, priority) ==
  journal_labelled(data, message, priority.severity_num,
                   _extract_journald_timestamp(data, priority.stats))

journal_fields(data, message, priority_field) ==
  journal_resolved(data, message.message,
                   journal_priority(priority_field, py_int(priority_field),
                                    message.stats))

_normalize_journalctl(event, stats) ==
  IF ~ is_dict(event.data)
  THEN [ok |-> FALSE, rec |-> NoRecord, err |-> "NormalizationError", stats |-> stats]
  ELSE journal_fields(event.data,
                      journal_message(dict_get(event.data, "MESSAGE", PyStr(<<>>)),
                                      stats),
                      dict_get(event.data, "PRIORITY", PyNone))

\* a JSON-Lines entry as parsed by json.loads: a dict with (possibly absent)
\* fields, or some other JSON value; line is its line number in the file
EmptyJsonl ==
  [isdict |-> TRUE, message |-> PyAbsent, msg |-> PyAbsent, log |-> PyAbsent,
   level |-> PyAbsent, severity |-> PyAbsent, timestamp |-> PyAbsent,
   time |-> PyAbsent, at_timestamp |-> PyAbsent, line |-> 0]
NotAJsonlDict == [EmptyJsonl EXCEPT !.isdict = FALSE]

\* level_map of _normalize_file_jsonl
level_map ==
  { <<<<"d","e","b","u","g">>, 7>>, <<<<"i","n","f","o">>, 6>>,
    <<<<"n","o","t","i","c","e">>, 5>>, <<<<"w","a","r","n">>, 4>>,
    <<<<"w","a","r","n","i","n","g">>, 4>>, <<<<"e","r","r","o","r">>, 3>>,
    <<<<"e","r","r">>, 3>>, <<<<"c","r","i","t">>, 2>>,
    <<<<"c","r","i","t","i","c","a","l">>, 2>>, <<<<"a","l","e","r","t">>, 1>>,
    <<<<"e","m","e","r","g">>, 0>> }

\* the severity of a JSON-Lines level value that is not None
jsonl_severity(level) ==
  CASE level.t = "int" -> IF 0 <= level.i /\ level.i <= 7 THEN level.i ELSE 6
    [] level.t = "str" ->
         LET key == str_lower(level.s)
         IN  IF \E p \in level_map : p[1] = key
             THEN (CHOOSE p \in level_map : p[1] = key)[2]
             ELSE 6
    [] OTHER -> 6

\* the Unix timestamp of a JSON-Lines entry, parsed being the number read
\* from the field and made the outcome of datetime.fromtimestamp
jsonl_epoch(parsed, made) ==
  IF parsed.ok /\ made = "ok"
  THEN [err |-> "none",
        timestamp |-> [kind |-> "epoch_s",
                       us |-> IF parsed.neg THEN <<"-">> \o parsed.digs
                              ELSE parsed.digs]]
  ELSE IF parsed.ok /\ made = "OverflowError"
  THEN [err |-> "OverflowError", timestamp |-> [kind |-> "none", us |-> <<>>]]
  ELSE [err |-> "none", timestamp |-> [kind |-> "now", us |-> <<>>]]

jsonl_epoch_parsed(parsed) ==
  jsonl_epoch(parsed, datetime_fromtimestamp(parsed.neg, parsed.digs))

\* the timestamp of a JSON-Lines entry, text being str(timestamp_str):
\* ISO-8601 first, then a Unix timestamp, else the wall clock.  The
\* OverflowError of fromtimestamp is not among the exceptions caught.
jsonl_timestamp_text(timestamp_str, text) ==
  IF py_falsy(timestamp_str)
  THEN [err |-> "none", timestamp |-> [kind |-> "now", us |-> <<>>]]
  ELSE IF date_fromisoformat(text)
  THEN [err |-> "none", timestamp |-> [kind |-> "iso", us |-> text]]
  ELSE jsonl_epoch_parsed(py_int_parse(timestamp_str))

jsonl_timestamp(timestamp_str) ==
  jsonl_timestamp_text(timestamp_str, py_str(timestamp_str))

\* LogRecord(...) of a JSON-Lines entry, or the error that left the timestamp
\* parsing
jsonl_record(ts, made, stats) ==
  IF ts.err # "none"
  THEN [ok |-> FALSE, rec |-> NoRecord, err |-> ts.err, stats |-> stats]
  ELSE [ok |-> made.ok, rec |-> made.rec, err |-> made.err, stats |-> stats]

jsonl_labelled(data, message, severity_num, ts, stats) ==
  jsonl_record(ts,
               LogRecord(ts.timestamp, severity_num,
                         priority_to_label(severity_num).v, message, data),
               stats)

jsonl_fields(data, message0, level, timestamp_str, stats) ==
  jsonl_labelled(data, py_str(message0),
                 IF level.t # "none" THEN jsonl_severity(level) ELSE 6,
                 jsonl_timestamp(timestamp_str), stats)

_normalize_file_jsonl(event, stats) ==
  IF ~ is_dict(event.data)
  THEN [ok |-> FALSE, rec |-> NoRecord, err |-> "NormalizationError", stats |-> stats]
  ELSE jsonl_fields(event.data,
                    py_or(py_or(py_or(dict_get(event.data, "message", PyNone),
                                      dict_get(event.data, "msg", PyNone)),
                                dict_get(event.data, "log", PyNone)),
                          PyStr(<<>>)),
                    py_or(dict_get(event.data, "level", PyNone),
                          dict_get(event.data, "severity", PyNone)),
                    py_or(py_or(dict_get(event.data, "timestamp", PyNone),
                                dict_get(event.data, "time", PyNone)),
                          dict_get(event.data, "at_timestamp", PyNone)),
                    stats)

\* a text normalizer that strips the line
_normalize_file_text_stripped(event, stats) ==
  IF ~ is_str(event.data)
  THEN [ok |-> FALSE, rec |-> NoRecord, err |-> "NormalizationError", stats |-> stats]
  ELSE LET message == str_strip(event.data.s)
           made == LogRecord([kind |-> "now", us |-> <<>>], 6, <<"I","N","F","O">>,
                             message, [line |-> message])
       IN  [ok |-> made.ok, rec |-> made.rec, err |-> made.err, stats |-> stats]

_normalize_file_text(event, stats) ==
  IF ~ is_str(event.data)
  THEN [ok |-> FALSE, rec |-> NoRecord, err |-> "NormalizationError", stats |-> stats]
  ELSE LET message == event.data.s
           made == LogRecord([kind |-> "now", us |-> <<>>], 6, <<"I","N","F","O">>,
                             message, [line |-> message])
       IN  [ok |-> made.ok, rec |-> made.rec, err |-> made.err, stats |-> stats]

\* a normalize_event that counts an event only once it has a normalizer
normalize_event_counts_known(event, stats) ==
  LET counted == [stats EXCEPT !.total = @ + 1]
  IN  IF event.source_type = "journalctl" THEN _normalize_journalctl(event, counted)
      ELSE IF event.source_type = "file_jsonl" THEN _normalize_file_jsonl(event, counted)
      ELSE IF event.source_type = "file_text" THEN _normalize_file_text(event, counted)
      ELSE [ok |-> FALSE, rec |-> NoRecord, err |-> "NormalizationError",
            stats |-> stats]

normalize_event(event, stats) ==
  LET counted == [stats EXCEPT !.total = @ + 1]
  IN  IF event.source_type = "journalctl" THEN _normalize_journalctl(event, counted)
      ELSE IF event.source_type = "file_jsonl" THEN _normalize_file_jsonl(event, counted)
      ELSE IF event.source_type = "file_text" THEN _normalize_file_text(event, counted)
      ELSE [ok |-> FALSE, rec |-> NoRecord, err |-> "NormalizationError",
            stats |-> counted]

\* ------------------------------------------------------------------------
\* State
\* ------------------------------------------------------------------------
VARIABLES
  chain,      \* the generators under the consumer, outermost first
  active,     \* the frame that is running: "consumer" or a generator
  pc,         \* position of each generator
  err,        \* the exception each generator ended with
  src,        \* the JournalctlSource instance: _process, stats
  child,      \* the journalctl child process
  lines,      \* the lines read from the child's stdout, in order
  events,     \* the RawEvents read() has yielded, in order
  exit,       \* the exit status read() inspected after the stream ended
  fetch,      \* fetch_logs: arguments and locals
  fetched,    \* the LogRecords fetch_logs has yielded, in order
  normStats,  \* normalize.py _normalization_stats
  filt,       \* filter_logs: arguments and locals
  out,        \* the LogRecords filter_logs has yielded, in order
  records,    \* the record list handed to filter_logs, and its iterator
  norm,       \* the last direct call of normalize_event and its result
  snapshot,   \* the dict a caller got from get_normalization_stats
  registry,   \* sources/registry.py _SOURCES and the last registry call
  sev,        \* the last direct call of a severity.py function
  file,       \* a FileSource, the file it reads and what read() yielded
  pipe        \* the child's two output pipes and the parent reading them

vars == <<chain, active, pc, err, src, child, lines, events, exit,
          fetch, fetched, normStats, filt, out, records,
          norm, snapshot, registry, sev, file, pipe>>

\* the state of the pipeline, and the state used by direct library calls
pipeVars == <<chain, active, pc, err, src, child, lines, events, exit,
              fetch, fetched, filt, out, records>>
auxVars == <<sev, file, pipe>>
libVars == <<norm, snapshot, registry, auxVars>>

Frames == {"read", "fetch", "filter", "list"}

\* who called next() on generator f, and whom f pulls from
Stack == <<"consumer">> \o chain
Caller(f) == Stack[(CHOOSE k \in 2..Len(Stack) : Stack[k] = f) - 1]
Callee(f) == Stack[(CHOOSE k \in 1..(Len(Stack) - 1) : Stack[k] = f) + 1]
InChain(f) == \E k \in 1..Len(chain) : chain[k] = f

\* a generator that can still be resumed or closed
Live(f) == pc[f] \in {"new", "yield"}
Finished(f) == pc[f] \in {"done", "raised", "closed"}

\* next(gen): a new generator starts at the top of its body, a suspended one
\* continues after its yield
ResumePc(f, at) ==
  IF at = "new" THEN "new" ELSE IF f \in {"read", "list"} THEN "loop" ELSE "resumed"

\* ------------------------------------------------------------------------
\* sources/journalctl.py
\* ------------------------------------------------------------------------
\* subprocess wait(timeout=5) in the termination sequence
WAIT_TIMEOUT == 5

\* exit codes of a child that exits by itself
MaxExitCode == 2
ExitCodes == 0..MaxExitCode

PERMISSION_DENIED ==
  <<"p","e","r","m","i","s","s","i","o","n"," ","d","e","n","i","e","d">>
ACCESS_DENIED == <<"a","c","c","e","s","s"," ","d","e","n","i","e","d">>

\* what the child may have written to stderr
StderrTexts ==
  { <<>>,
    <<" ", "\n">>,
    <<"P","e","r","m","i","s","s","i","o","n"," ","d","e","n","i","e","d","\n">>,
    <<"A","C","C","E","S","S"," ","D","E","N","I","E","D">>,
    <<"F","a","i","l","e","d","\n">> }

NewSource ==
  [process |-> FALSE,
   stats |-> [total_lines |-> 0, empty_lines |-> 0, json_errors |-> 0,
              events_yielded |-> 0],
   closeCalls |-> 0]

NoChild == [state |-> "none", sigterm |-> 0, sigkill |-> 0, termDelay |-> 0]

\* message is the diagnostic text carried by the error read() raised
NoExit == [seen |-> FALSE, returncode |-> 0, stderr |-> <<>>, message |-> <<>>]

\* the text the raised error carries after its fixed prefix
error_message(outcome, stderr) == IF outcome = "ok" THEN <<>> ELSE stderr

\* how long the child may take to exit after SIGTERM: at once, just within
\* the timeout, or longer
TermDelays == {0} \cup (WAIT_TIMEOUT..MaxTermDelay)

\* terminate(); wait(timeout=5); kill() on TimeoutExpired -- only for a set
\* handle whose child is still running (poll() is None).  d is the time the
\* child takes to exit after SIGTERM.
terminate_sequence(process, ch, d) ==
  IF process /\ ch.state = "running"
  THEN IF d <= WAIT_TIMEOUT
       THEN [ch EXCEPT !.state = "exited", !.sigterm = @ + 1, !.termDelay = d]
       ELSE [ch EXCEPT !.state = "exited", !.sigterm = @ + 1,
                       !.sigkill = @ + 1, !.termDelay = d]
  ELSE ch

\* a close() that runs the termination sequence but keeps the handle
JournalctlSource_close_keeps_handle(s, ch, d) ==
  [src |-> [s EXCEPT !.closeCalls = @ + 1],
   child |-> terminate_sequence(s.process, ch, d)]

\* JournalctlSource.close()
JournalctlSource_close(s, ch, d) ==
  [src |-> [s EXCEPT !.process = FALSE, !.closeCalls = @ + 1],
   child |-> terminate_sequence(s.process, ch, d)]

\* an __exit__ that forgets to call close()
LogSource_exit_noclose(s, ch, d) == [src |-> s, child |-> ch]

\* sources/base.py LogSource.__exit__: leaving the with block calls close()
LogSource_exit(s, ch, d) == JournalctlSource_close(s, ch, d)

\* a read() that drops parsed values that are not JSON objects
read_line_yields_dicts(line) == line.kind = "json" /\ line.data.isdict

\* json.loads(line) succeeded: the line yields a RawEvent
read_line_yields(line) == line.kind = "json"

\* a read() that forgets to count the blank lines it skips
read_line_stats_noempty(stats, line) ==
  LET counted == [stats EXCEPT !.total_lines = @ + 1]
  IN  CASE line.kind = "blank" -> counted
        [] line.kind = "json" -> [counted EXCEPT !.events_yielded = @ + 1]
        [] OTHER -> [counted EXCEPT !.json_errors = @ + 1]

\* the statistics read() keeps for one line of stdout
read_line_stats(stats, line) ==
  LET counted == [stats EXCEPT !.total_lines = @ + 1]
  IN  CASE line.kind = "blank" -> [counted EXCEPT !.empty_lines = @ + 1]
        [] line.kind = "json" -> [counted EXCEPT !.events_yielded = @ + 1]
        [] OTHER -> [counted EXCEPT !.json_errors = @ + 1]

\* a classification that takes every silent non-zero exit for "no entries"
check_returncode_any(returncode, stderr) ==
  IF returncode # 0
  THEN IF \/ str_contains(PERMISSION_DENIED, str_lower(stderr))
          \/ str_contains(ACCESS_DENIED, str_lower(stderr))
       THEN "SourcePermissionError"
       ELSE IF str_blank(stderr) THEN "ok"
       ELSE "SourceError"
  ELSE "ok"

\* a classification that looks for the denial without lower-casing stderr
check_returncode_cased(returncode, stderr) ==
  IF returncode # 0
  THEN IF \/ str_contains(PERMISSION_DENIED, stderr)
          \/ str_contains(ACCESS_DENIED, stderr)
       THEN "SourcePermissionError"
       ELSE IF returncode = 1 /\ str_blank(stderr) THEN "ok"
       ELSE "SourceError"
  ELSE "ok"

\* the classification of the exit status after the stream ended
check_returncode(returncode, stderr) ==
  IF returncode # 0
  THEN IF \/ str_contains(PERMISSION_DENIED, str_lower(stderr))
          \/ str_contains(ACCESS_DENIED, str_lower(stderr))
       THEN "SourcePermissionError"
       ELSE IF returncode = 1 /\ str_blank(stderr) THEN "ok"
       ELSE "SourceError"
  ELSE "ok"

\* journal entries the child may print on line n
EntryErr(n) ==
  JournalDict(PyStr(<<"a","B">>), PyStr(<<"3">>), PyStr(<<"1","7">>), PyAbsent, n)
EntryInfo(n) ==
  JournalDict(PyStr(<<"b">>), PyStr(<<"6">>), PyAbsent, PyStr(<<"1","8">>), n)

\* an entry whose timestamp is beyond the platform's time_t
EntryOverflow(n) ==
  JournalDict(PyStr(<<"c">>), PyStr(<<"3">>),
              PyStr(<<"1","0","0","0","0","0","0","0","0","0","0","0","0",
                      "0","0","0","0","0","0","0","0","0","0","0","0","0">>),
              PyAbsent, n)

Line(kind, data) == [kind |-> kind, data |-> data]

\* the possible n-th line of stdout: blank, not JSON, a JSON object, or
\* (when the events are normalized downstream) JSON that is not an object
\* and an object with an oversized timestamp
StdoutLines(n) ==
  { Line("blank", NotADict(n)), Line("malformed", NotADict(n)),
    Line("json", EntryErr(n)) }
  \cup (IF InChain("fetch")
        THEN { Line("json", EntryInfo(n)), Line("json", NotADict(n)),
               Line("json", EntryOverflow(n)) }
        ELSE {})

\* the lines among ls that gave no event (blank, or not JSON)
Skipped(ls) == Cardinality({ k \in 1..Len(ls) : ls[k].kind # "json" })

\* subprocess.Popen: journalctl is started, or is not installed
read_Popen ==
  /\ active = "read" /\ pc.read = "new"
  /\ \E found \in BOOLEAN :
       IF found
       THEN /\ src' = [src EXCEPT !.process = TRUE]
            /\ child' = [child EXCEPT !.state = "running"]
            /\ pc' = [pc EXCEPT !.read = "loop"]
            /\ UNCHANGED <<active, err>>
       ELSE /\ pc' = [pc EXCEPT !.read = "raised"]
            /\ err' = [err EXCEPT !.read = "SourceNotFoundError"]
            /\ active' = Caller("read")
            /\ UNCHANGED <<src, child>>
  /\ UNCHANGED <<chain, lines, events, exit, fetch, fetched, normStats,
                 filt, out, records>>
  /\ UNCHANGED libVars

\* one iteration of "for line in self._process.stdout"
read_line ==
  /\ active = "read" /\ pc.read = "loop"
  /\ Len(lines) < (IF InChain("fetch") THEN MaxFetchLines ELSE MaxLines)
  /\ \E line \in StdoutLines(Len(lines) + 1) :
       /\ line.kind = "json" \/ Skipped(lines) < MaxSkipped
       /\ lines' = Append(lines, line)
       /\ src' = [src EXCEPT !.stats = read_line_stats(@, line)]
       /\ IF read_line_yields(line)
          THEN /\ events' = Append(events, RawEvent(line.data, "journalctl"))
               /\ pc' = [pc EXCEPT !.read = "yield"]
               /\ active' = Caller("read")
          ELSE UNCHANGED <<events, pc, active>>
  /\ UNCHANGED <<chain, err, child, exit, fetch, fetched, normStats,
                 filt, out, records>>
  /\ UNCHANGED libVars

\* reading stdout fails (undecodable bytes): the except clause runs the
\* termination sequence and re-raises
read_stream_error ==
  /\ active = "read" /\ pc.read = "loop"
  /\ \E d \in TermDelays : child' = terminate_sequence(src.process, child, d)
  /\ pc' = [pc EXCEPT !.read = "raised"]
  /\ err' = [err EXCEPT !.read = "UnicodeDecodeError"]
  /\ active' = Caller("read")
  /\ UNCHANGED <<chain, src, lines, events, exit, fetch, fetched, normStats,
                 filt, out, records>>
  /\ UNCHANGED libVars

\* end of the stdout stream
read_eof ==
  /\ active = "read" /\ pc.read = "loop"
  /\ pc' = [pc EXCEPT !.read = "wait"]
  /\ UNCHANGED <<chain, active, err, src, child, lines, events, exit, fetch,
                 fetched, normStats, filt, out, records>>
  /\ UNCHANGED libVars

\* self._process.wait() and the inspection of the exit status.  With the
\* handle cleared by close(), self._process.wait() is an AttributeError.
read_wait ==
  /\ active = "read" /\ pc.read = "wait"
  /\ IF ~ src.process
     THEN /\ pc' = [pc EXCEPT !.read = "raised"]
          /\ err' = [err EXCEPT !.read = "AttributeError"]
          /\ UNCHANGED <<exit, child>>
     ELSE /\ child.state = "exited"
          /\ \E returncode \in ExitCodes, text \in StderrTexts :
               LET stderr == IF returncode # 0 THEN text ELSE <<>>
                   outcome == check_returncode(returncode, stderr)
               IN  /\ exit' = [seen |-> TRUE, returncode |-> returncode,
                               stderr |-> stderr,
                               message |-> error_message(outcome, stderr)]
                   /\ pc' = [pc EXCEPT !.read = IF outcome = "ok" THEN "done"
                                                ELSE "raised"]
                   /\ err' = [err EXCEPT !.read = IF outcome = "ok" THEN @
                                                  ELSE outcome]
                   /\ child' = IF outcome = "ok" THEN child
                               ELSE terminate_sequence(src.process, child, 0)
  /\ active' = Caller("read")
  /\ UNCHANGED <<chain, src, lines, events, fetch, fetched, normStats,
                 filt, out, records>>
  /\ UNCHANGED libVars

\* the child exits by itself
child_exit ==
  /\ child.state = "running"
  /\ child' = [child EXCEPT !.state = "exited"]
  /\ UNCHANGED <<chain, active, pc, err, src, lines, events, exit, fetch,
                 fetched, normStats, filt, out, records>>
  /\ UNCHANGED libVars

\* ------------------------------------------------------------------------
\* sources/registry.py
\* ------------------------------------------------------------------------
\* register_source calls since the registry was last empty
MaxRegs == 3

\* the characters of the names, in code point order
ASCII_ORDER == DIGITS \o UPPER \o <<"_">> \o LOWER
char_code(c) == CHOOSE k \in 1..Len(ASCII_ORDER) : ASCII_ORDER[k] = c

\* a < b for two Python strings
RECURSIVE str_less(_, _)
str_less(a, b) ==
  IF Len(b) = 0 THEN FALSE
  ELSE IF Len(a) = 0 THEN TRUE
  ELSE IF a[1] # b[1] THEN char_code(a[1]) < char_code(b[1])
  ELSE str_less(Tail(a), Tail(b))

\* the source names used, with their characters
NameChars ==
  [name \in {"journalctl", "file", "Zlog"} |->
     CASE name = "journalctl" -> <<"j","o","u","r","n","a","l","c","t","l">>
       [] name = "file" -> <<"f","i","l","e">>
       [] name = "Zlog" -> <<"Z","l","o","g">>]

\* sorted(names)
RECURSIVE sorted(_)
sorted(names) ==
  IF names = {} THEN <<>>
  ELSE LET first == CHOOSE x \in names :
                      \A y \in names \ {x} : str_less(NameChars[x], NameChars[y])
       IN  <<first>> \o sorted(names \ {first})

\* a register_source that rebinds a name that is already bound
register_source_override(sources, name, source_class) ==
  [sources |-> [n \in DOMAIN sources \cup {name} |->
                  IF n = name THEN source_class ELSE sources[n]],
   err |-> "none"]

\* register_source(name, source_class)
register_source(sources, name, source_class) ==
  IF name \in DOMAIN sources
  THEN [sources |-> sources, err |-> "ValueError"]
  ELSE [sources |-> [n \in DOMAIN sources \cup {name} |->
                       IF n = name THEN source_class ELSE sources[n]],
        err |-> "none"]

\* list_sources()
list_sources(sources) == sorted(DOMAIN sources)

\* get_source calls that construct an instance in one run
MaxGets == 2

\* the keyword arguments the constructors take: JournalctlSource.__init__ and
\* FileSource.__init__ (path has no default; follow=True is not implemented)
construct(source_class, kwargs) ==
  CASE source_class = "JournalctlSource" ->
         IF DOMAIN kwargs \subseteq {"since", "until", "units", "priority",
                                     "follow", "warn_on_errors"}
         THEN "none" ELSE "TypeError"
    [] source_class = "FileSource" ->
         IF ~ ("path" \in DOMAIN kwargs
               /\ DOMAIN kwargs \subseteq {"path", "mode", "encoding", "follow"})
         THEN "TypeError"
         ELSE IF "follow" \in DOMAIN kwargs /\ kwargs.follow
         THEN "NotImplementedError" ELSE "none"

NoInstance == [id |-> 0, class |-> "none", kwargs |-> <<>>]

\* a get_source that hands out one instance per name
get_source_shared(sources, name, kwargs, made) ==
  IF name \notin DOMAIN sources
  THEN [err |-> "KeyError", available |-> sorted(DOMAIN sources),
        instance |-> NoInstance]
  ELSE IF construct(sources[name], kwargs) # "none"
  THEN [err |-> construct(sources[name], kwargs), available |-> <<>>,
        instance |-> NoInstance]
  ELSE [err |-> "none", available |-> <<>>,
        instance |-> [id |-> 1, class |-> sources[name], kwargs |-> kwargs]]

\* get_source(name, **kwargs): an unbound name is a KeyError whose message
\* lists the sorted registered names; otherwise the bound constructor is
\* called with the kwargs and what it returns (a new object, the made+1-th
\* of the run) or raises is the outcome
get_source(sources, name, kwargs, made) ==
  IF name \notin DOMAIN sources
  THEN [err |-> "KeyError", available |-> sorted(DOMAIN sources),
        instance |-> NoInstance]
  ELSE IF construct(sources[name], kwargs) # "none"
  THEN [err |-> construct(sources[name], kwargs), available |-> <<>>,
        instance |-> NoInstance]
  ELSE [err |-> "none", available |-> <<>>,
        instance |-> [id |-> made + 1, class |-> sources[name],
                      kwargs |-> kwargs]]

\* _clear_registry()
_clear_registry(sources) == [n \in {} |-> "none"]

\* ------------------------------------------------------------------------
\* engine.py: fetch_logs
\* ------------------------------------------------------------------------
\* sources/registry.py _SOURCES after engine.py has registered the built-ins:
\* a dict from source name to constructor
_SOURCES ==
  [name \in {"journalctl", "file"} |->
     IF name = "journalctl" THEN "JournalctlSource" ELSE "FileSource"]

\* a limit test that lets one more record through
limit_reached_late(limit, count) == limit # <<>> /\ count > limit[1]

\* "limit is not None and count >= limit"; limit is <<>> for None
limit_reached(limit, count) == limit # <<>> /\ count >= limit[1]

\* first next(): resolve the source, enter the with block, call read()
fetch_start ==
  /\ active = "fetch" /\ pc.fetch = "new"
  /\ IF /\ fetch.source # "instance"
        /\ get_source(registry.sources, fetch.source, <<>>, registry.made).err
             = "KeyError"
     THEN /\ pc' = [pc EXCEPT !.fetch = "raised"]
          /\ err' = [err EXCEPT !.fetch = "KeyError"]
          /\ active' = Caller("fetch")
          /\ UNCHANGED fetch
     ELSE /\ fetch' = [fetch EXCEPT !.count = 0, !.entered = TRUE]
          /\ pc' = [pc EXCEPT !.fetch = "pull"]
          /\ active' = "read"
          /\ UNCHANGED err
  /\ UNCHANGED <<chain, src, child, lines, events, exit, fetched, normStats,
                 filt, out, records>>
  /\ UNCHANGED libVars

\* next(read()) has returned to the for loop: normalize and yield the event,
\* or leave the with block (close()) when read() ended or something raised
fetch_pulled ==
  /\ active = "fetch" /\ pc.fetch = "pull"
  /\ \E d \in TermDelays :
       LET closed == LogSource_exit(src, child, d)
           n == normalize_event(events[Len(events)], normStats)
       IN  CASE pc.read = "yield" /\ n.ok ->
                  /\ normStats' = n.stats
                  /\ fetched' = Append(fetched, n.rec)
                  /\ pc' = [pc EXCEPT !.fetch = "yield"]
                  /\ UNCHANGED <<src, child, err>>
             [] pc.read = "yield" /\ ~ n.ok ->
                  /\ normStats' = n.stats
                  /\ pc' = [pc EXCEPT !.fetch = "raised", !.read = "closed"]
                  /\ err' = [err EXCEPT !.fetch = n.err]
                  /\ src' = closed.src /\ child' = closed.child
                  /\ UNCHANGED fetched
             [] pc.read = "done" ->
                  /\ pc' = [pc EXCEPT !.fetch = "done"]
                  /\ src' = closed.src /\ child' = closed.child
                  /\ UNCHANGED <<normStats, fetched, err>>
             [] pc.read = "raised" ->
                  /\ pc' = [pc EXCEPT !.fetch = "raised"]
                  /\ err' = [err EXCEPT !.fetch = err.read]
                  /\ src' = closed.src /\ child' = closed.child
                  /\ UNCHANGED <<normStats, fetched>>
  /\ active' = Caller("fetch")
  /\ UNCHANGED <<chain, lines, events, exit, fetch, filt, out, records>>
  /\ UNCHANGED libVars

\* resumed after the yield: count += 1, then break (leaving the with block
\* and dropping the read() generator) or pull the next raw event
fetch_resume ==
  /\ active = "fetch" /\ pc.fetch = "resumed"
  /\ fetch' = [fetch EXCEPT !.count = @ + 1]
  /\ \E d \in TermDelays :
       LET closed == LogSource_exit(src, child, d)
       IN  IF limit_reached(fetch.limit, fetch.count + 1)
           THEN /\ pc' = [pc EXCEPT !.fetch = "done", !.read = "closed"]
                /\ src' = closed.src /\ child' = closed.child
                /\ active' = Caller("fetch")
           ELSE /\ pc' = [pc EXCEPT !.fetch = "pull", !.read = "loop"]
                /\ active' = "read"
                /\ UNCHANGED <<src, child>>
  /\ UNCHANGED <<chain, err, lines, events, exit, fetched, normStats,
                 filt, out, records>>
  /\ UNCHANGED libVars

\* ------------------------------------------------------------------------
\* iter(list): the record list handed to filter_logs directly
\* ------------------------------------------------------------------------
list_next ==
  /\ active = "list" /\ pc.list \in {"new", "loop"}
  /\ IF records.pos < Len(records.items)
     THEN /\ records' = [records EXCEPT !.pos = @ + 1]
          /\ pc' = [pc EXCEPT !.list = "yield"]
     ELSE /\ pc' = [pc EXCEPT !.list = "done"]
          /\ UNCHANGED records
  /\ active' = Caller("list")
  /\ UNCHANGED <<chain, err, src, child, lines, events, exit, fetch, fetched,
                 normStats, filt, out>>
  /\ UNCHANGED libVars

\* a filter_logs that works on a list made of its whole input: the record
\* it looks at is the last of the input, not the one just pulled
Yielded_materialized(f) ==
  IF f = "fetch" THEN fetched[Len(fetched)] ELSE records.items[Len(records.items)]

\* the value a suspended generator has just yielded
Yielded(f) ==
  IF f = "fetch" THEN fetched[Len(fetched)] ELSE records.items[records.pos]

\* ------------------------------------------------------------------------
\* filtering.py: filter_logs
\* ------------------------------------------------------------------------
\* the loop body: TRUE when the record reaches the yield
filter_keeps(record, severity, min_severity, keyword, case_sensitive) ==
  /\ severity.t # "none" =>
       record.severity_num = label_to_priority(severity).v
  /\ min_severity.t # "none" =>
       is_at_least_severity(record.severity_num,
                            PyInt(label_to_priority(min_severity).v))
  /\ keyword.t # "none" =>
       IF case_sensitive
       THEN str_contains(keyword.s, record.message)
       ELSE str_contains(str_lower(keyword.s), str_lower(record.message))

\* checks that test the options for truth instead of "is not None"
filter_precheck_truthy(severity, min_severity) ==
  IF ~ py_falsy(severity) /\ ~ py_falsy(min_severity) THEN "ValueError"
  ELSE IF severity.t # "none" /\ ~ label_to_priority(severity).ok THEN "ValueError"
  ELSE IF min_severity.t # "none" /\ ~ label_to_priority(min_severity).ok
  THEN "ValueError"
  ELSE "none"

\* the checks before the loop: the error raised, or "none"
filter_precheck(severity, min_severity) ==
  IF severity.t # "none" /\ min_severity.t # "none" THEN "ValueError"
  ELSE IF severity.t # "none" /\ ~ label_to_priority(severity).ok THEN "ValueError"
  ELSE IF min_severity.t # "none" /\ ~ label_to_priority(min_severity).ok
  THEN "ValueError"
  ELSE "none"

\* first next(): the option checks, then the first pull from the input
filter_start ==
  /\ active = "filter" /\ pc.filter = "new"
  /\ LET e == filter_precheck(filt.severity, filt.min_severity)
         input == Callee("filter")
     IN  IF e # "none"
         THEN /\ pc' = [pc EXCEPT !.filter = "raised"]
              /\ err' = [err EXCEPT !.filter = e]
              /\ active' = Caller("filter")
         ELSE /\ pc' = [pc EXCEPT !.filter = "pull",
                                  ![input] = ResumePc(input, @)]
              /\ active' = input
              /\ UNCHANGED err
  /\ UNCHANGED <<chain, src, child, lines, events, exit, fetch, fetched,
                 normStats, filt, out, records>>
  /\ UNCHANGED libVars

\* resumed after the yield: next iteration of "for record in records"
filter_resume ==
  /\ active = "filter" /\ pc.filter = "resumed"
  /\ LET input == Callee("filter")
     IN  /\ pc' = [pc EXCEPT !.filter = "pull", ![input] = ResumePc(input, @)]
         /\ active' = input
  /\ UNCHANGED <<chain, err, src, child, lines, events, exit, fetch, fetched,
                 normStats, filt, out, records>>
  /\ UNCHANGED libVars

\* the input has returned: yield the record, skip it and pull again, or end
filter_pulled ==
  /\ active = "filter" /\ pc.filter = "pull"
  /\ LET input == Callee("filter")
     IN  CASE pc[input] = "yield" ->
                /\ filt' = [filt EXCEPT !.pulled = @ + 1]
                /\ IF filter_keeps(Yielded(input), filt.severity,
                                   filt.min_severity, filt.keyword,
                                   filt.case_sensitive)
                   THEN /\ out' = Append(out, Yielded(input))
                        /\ pc' = [pc EXCEPT !.filter = "yield"]
                        /\ active' = Caller("filter")
                   ELSE /\ pc' = [pc EXCEPT ![input] = ResumePc(input, @)]
                        /\ active' = input
                        /\ UNCHANGED out
                /\ UNCHANGED err
           [] pc[input] = "done" ->
                /\ pc' = [pc EXCEPT !.filter = "done"]
                /\ active' = Caller("filter")
                /\ UNCHANGED <<err, filt, out>>
           [] pc[input] = "raised" ->
                /\ pc' = [pc EXCEPT !.filter = "raised"]
                /\ err' = [err EXCEPT !.filter = err[input]]
                /\ active' = Caller("filter")
                /\ UNCHANGED <<filt, out>>
  /\ UNCHANGED <<chain, src, child, lines, events, exit, fetch, fetched,
                 normStats, records>>
  /\ UNCHANGED libVars

\* ------------------------------------------------------------------------
\* The consumer of the outermost generator
\* ------------------------------------------------------------------------
\* how often the consumer calls source.close() itself
MaxCloses == 2

\* next(gen)
consumer_next ==
  /\ active = "consumer" /\ Live(chain[1])
  /\ active' = chain[1]
  /\ pc' = [pc EXCEPT ![chain[1]] = ResumePc(chain[1], @)]
  /\ UNCHANGED <<chain, err, src, child, lines, events, exit, fetch, fetched,
                 normStats, filt, out, records>>
  /\ UNCHANGED libVars

\* gen.close(), or dropping the last reference to gen: GeneratorExit is
\* raised at the yield of a suspended generator.  filter_logs has no handler;
\* fetch_logs leaves its with block (close()); read() catches only Exception,
\* which GeneratorExit is not.  A generator that ends drops the generator it
\* was pulling from, which is closed in turn.
consumer_close ==
  /\ active = "consumer" /\ Live(chain[1])
  /\ LET top == chain[1]
         closesFetch == /\ InChain("fetch") /\ top # "read" /\ Live("fetch")
         leavesWith == closesFetch /\ pc.fetch = "yield"
         closesRead == top = "read" \/ (leavesWith /\ Live("read"))
     IN  /\ pc' = [f \in Frames |->
                     IF \/ f = top
                        \/ f = "fetch" /\ closesFetch
                        \/ f = "read" /\ closesRead
                        \/ f = "list" /\ InChain("list") /\ Live("list")
                     THEN "closed" ELSE pc[f]]
         /\ \E d \in TermDelays :
              LET closed == LogSource_exit(src, child, d)
              IN  IF leavesWith
                  THEN src' = closed.src /\ child' = closed.child
                  ELSE UNCHANGED <<src, child>>
  /\ UNCHANGED <<chain, active, err, lines, events, exit, fetch, fetched,
                 normStats, filt, out, records>>
  /\ UNCHANGED libVars

\* source.close() called by a consumer that drives read() itself
consumer_source_close ==
  /\ active = "consumer" /\ chain[1] = "read"
  /\ src.closeCalls < MaxCloses
  /\ \E d \in TermDelays :
       LET closed == JournalctlSource_close(src, child, d)
       IN  src' = closed.src /\ child' = closed.child
  /\ UNCHANGED <<chain, active, pc, err, lines, events, exit, fetch, fetched,
                 normStats, filt, out, records>>
  /\ UNCHANGED libVars

\* ------------------------------------------------------------------------
\* Calls of the registry functions
\* ------------------------------------------------------------------------
\* log: the register_source calls since the registry was last empty
Registration(name, source_class) == [name |-> name, class |-> source_class]
NoRegistryCall ==
  [sources |-> _SOURCES,
   log |-> <<Registration("journalctl", "JournalctlSource"),
             Registration("file", "FileSource")>>,
   op |-> "none", err |-> "none", listed |-> <<>>,
   call |-> [name |-> "none", kwargs |-> <<>>], got |-> NoInstance, made |-> 0]

registry_register ==
  /\ Len(registry.log) < MaxRegs
  /\ \E name \in DOMAIN NameChars,
        source_class \in {"JournalctlSource", "FileSource"} :
       LET r == register_source(registry.sources, name, source_class)
       IN  registry' = [registry EXCEPT
                          !.sources = r.sources,
                          !.log = Append(@, Registration(name, source_class)),
                          !.op = "register", !.err = r.err, !.listed = <<>>,
                          !.call = NoRegistryCall.call, !.got = NoInstance]
  /\ UNCHANGED <<pipeVars, normStats, norm, snapshot, auxVars>>

registry_list ==
  /\ registry' = [registry EXCEPT !.op = "list", !.err = "none",
                                  !.listed = list_sources(registry.sources),
                                  !.call = NoRegistryCall.call,
                                  !.got = NoInstance]
  /\ UNCHANGED <<pipeVars, normStats, norm, snapshot, auxVars>>

registry_clear ==
  /\ registry' = [registry EXCEPT !.sources = _clear_registry(@), !.log = <<>>,
                                  !.op = "clear", !.err = "none",
                                  !.listed = <<>>,
                                  !.call = NoRegistryCall.call,
                                  !.got = NoInstance]
  /\ UNCHANGED <<pipeVars, normStats, norm, snapshot, auxVars>>

\* the options passed to get_source
SourceKwargs ==
  { <<>>, [path |-> "a.log"], [path |-> "a.log", follow |-> TRUE] }

registry_get ==
  /\ registry.made < MaxGets
  /\ \E name \in DOMAIN NameChars, kwargs \in SourceKwargs :
       LET g == get_source(registry.sources, name, kwargs, registry.made)
       IN  registry' = [registry EXCEPT
                          !.op = "get", !.err = g.err, !.listed = g.available,
                          !.call = [name |-> name, kwargs |-> kwargs],
                          !.got = g.instance,
                          !.made = IF g.err = "none" THEN @ + 1 ELSE @]
  /\ UNCHANGED <<pipeVars, normStats, norm, snapshot, auxVars>>

\* ------------------------------------------------------------------------
\* sources/journalctl.py: the two pipes between read() and the child
\* ------------------------------------------------------------------------
\* most writes the child makes before it exits
MaxWrites == 4
\* writes a pipe holds before the next write to it blocks
PipeCapacity == 2

\* script: the writes the child has still to make, each to its stdout
\* ("out", one line) or to its stderr ("err"); stdout, stderr: the writes
\* held by each pipe; parent: the position of read()
NoPipe ==
  [parent |-> "none", child |-> "none", script |-> <<>>, returncode |-> 0,
   stdout |-> 0, stderr |-> 0, got |-> 0, err |-> "none"]

\* subprocess.Popen(cmd, stdout=PIPE, stderr=PIPE): the child starts with a
\* pipe of its own for each of the two streams
pipe_Popen ==
  /\ pipe.parent = "new"
  /\ pipe' = [pipe EXCEPT !.parent = "loop", !.child = "running"]
  /\ UNCHANGED <<pipeVars, normStats, norm, snapshot, registry, sev, file>>

\* the child writes; a write to a full pipe blocks until the pipe is read
pipe_child_write ==
  /\ pipe.child = "running" /\ pipe.script # <<>>
  /\ IF Head(pipe.script) = "out"
     THEN /\ pipe.stdout < PipeCapacity
          /\ pipe' = [pipe EXCEPT !.stdout = @ + 1, !.script = Tail(@)]
     ELSE /\ pipe.stderr < PipeCapacity
          /\ pipe' = [pipe EXCEPT !.stderr = @ + 1, !.script = Tail(@)]
  /\ UNCHANGED <<pipeVars, normStats, norm, snapshot, registry, sev, file>>

\* the child has written everything: it exits, which closes its ends of
\* both pipes
pipe_child_exit ==
  /\ pipe.child = "running" /\ pipe.script = <<>>
  /\ pipe' = [pipe EXCEPT !.child = "exited"]
  /\ UNCHANGED <<pipeVars, normStats, norm, snapshot, registry, sev, file>>

\* "for line in self._process.stdout": a line is read and yielded; with
\* nothing in the pipe the read blocks until the child writes or has closed
\* its end, which ends the loop
pipe_read_stdout ==
  /\ pipe.parent = "loop"
  /\ IF pipe.stdout > 0
     THEN pipe' = [pipe EXCEPT !.stdout = @ - 1, !.got = @ + 1,
                               !.parent = "yield"]
     ELSE /\ pipe.child = "exited"
          /\ pipe' = [pipe EXCEPT !.parent = "wait"]
  /\ UNCHANGED <<pipeVars, normStats, norm, snapshot, registry, sev, file>>

\* next() of the consumer on the suspended read()
pipe_consumer_next ==
  /\ pipe.parent = "yield"
  /\ pipe' = [pipe EXCEPT !.parent = "loop"]
  /\ UNCHANGED <<pipeVars, normStats, norm, snapshot, registry, sev, file>>

\* returncode = self._process.wait() blocks until the child has exited;
\* stderr is read only then, and only for a returncode other than 0
pipe_wait ==
  /\ pipe.parent = "wait"
  /\ pipe.child = "exited"
  /\ LET stderr == IF pipe.returncode # 0 /\ pipe.stderr > 0
                   THEN <<"e">> ELSE <<>>
     IN  pipe' = [pipe EXCEPT
                    !.stderr = IF pipe.returncode # 0 THEN 0 ELSE @,
                    !.parent = IF check_returncode(pipe.returncode, stderr) = "ok"
                               THEN "done" ELSE "raised",
                    !.err = IF check_returncode(pipe.returncode, stderr) = "ok"
                            THEN "none"
                            ELSE check_returncode(pipe.returncode, stderr)]
  /\ UNCHANGED <<pipeVars, normStats, norm, snapshot, registry, sev, file>>

\* ------------------------------------------------------------------------
\* sources/file.py: FileSource.read
\* ------------------------------------------------------------------------
\* most lines in the file
MaxFileLines == 3

\* sys.int_max_str_digits: the longest run of digits int() converts
INT_MAX_STR_DIGITS == 4300
\* stands for a run of INT_MAX_STR_DIGITS + 1 characters "9"
DIGIT_RUN == "9*4301"

\* line.rstrip("\n\r")
RECURSIVE str_rstrip_newlines(_)
str_rstrip_newlines(cs) ==
  IF Len(cs) > 0 /\ cs[Len(cs)] \in {"\n", "\r"}
  THEN str_rstrip_newlines(SubSeq(cs, 1, Len(cs) - 1))
  ELSE cs

\* the text is one JSON number made of digits
json_integer(cs) ==
  /\ Len(cs) > 0
  /\ \A k \in 1..Len(cs) : cs[k] = DIGIT_RUN \/ \E d \in 1..10 : DIGITS[d] = cs[k]
  /\ Len(cs) > 1 => cs[1] # "0"

digit_count(cs) ==
  Cardinality({ k \in 1..Len(cs) : cs[k] # DIGIT_RUN })
  + (INT_MAX_STR_DIGITS + 1) * Cardinality({ k \in 1..Len(cs) : cs[k] = DIGIT_RUN })

\* the text is a JSON document (of the texts used here: an empty object or
\* an integer)
json_valid(cs) == cs = <<"{", "}">> \/ json_integer(cs)

\* json.loads(line): the parsed value stands as the text it was parsed
\* from; a text that is no JSON document raises JSONDecodeError; an integer
\* longer than int() converts raises a plain ValueError out of the decoder
json_loads(cs) ==
  IF ~ json_valid(cs) THEN [err |-> "JSONDecodeError", data |-> <<>>]
  ELSE IF json_integer(cs) /\ digit_count(cs) > INT_MAX_STR_DIGITS
  THEN [err |-> "ValueError", data |-> <<>>]
  ELSE [err |-> "none", data |-> cs]

FileEvent(data, source_type, line_num) ==
  [data |-> data, source_type |-> source_type,
   metadata |-> [path |-> "a.log", line |-> line_num]]

NoFileEvent == FileEvent(<<>>, "none", 0)

\* the body of the for loop for the stripped line of number line_num
file_line(mode, line, line_num) ==
  IF line = <<>>
  THEN [outcome |-> "continue", err |-> "none", event |-> NoFileEvent]
  ELSE IF mode # "jsonl"
  THEN [outcome |-> "yield", err |-> "none",
        event |-> FileEvent(line, "file_text", line_num)]
  ELSE IF json_loads(line).err = "none"
  THEN [outcome |-> "yield", err |-> "none",
        event |-> FileEvent(json_loads(line).data, "file_jsonl", line_num)]
  ELSE IF json_loads(line).err = "JSONDecodeError"
  THEN [outcome |-> "continue", err |-> "none", event |-> NoFileEvent]
  ELSE [outcome |-> "raise", err |-> json_loads(line).err, event |-> NoFileEvent]

\* the for loop from line line_num on, up to the next yield, an exception
\* or the end of the file
RECURSIVE file_scan(_, _, _)
file_scan(mode, content, line_num) ==
  IF line_num > Len(content)
  THEN [outcome |-> "end", err |-> "none", event |-> NoFileEvent,
        at |-> Len(content)]
  ELSE IF file_line(mode, str_rstrip_newlines(content[line_num]), line_num).outcome
          = "continue"
  THEN file_scan(mode, content, line_num + 1)
  ELSE [outcome |-> file_line(mode, str_rstrip_newlines(content[line_num]), line_num).outcome,
        err |-> file_line(mode, str_rstrip_newlines(content[line_num]), line_num).err,
        event |-> file_line(mode, str_rstrip_newlines(content[line_num]), line_num).event,
        at |-> line_num]

NoFile ==
  [state |-> "none", kind |-> "file", mode |-> "text", content |-> <<>>,
   pos |-> 0, yielded |-> <<>>, err |-> "none", handle |-> FALSE]

\* the lines of a file as iteration over the open file gives them: every
\* line but the last ends with "\n", the last may lack it
FileLinePool ==
  { <<"\n">>, <<" ", "\n">>, <<"a", "\n">>, <<"{", "}", "\n">>,
    <<"5", "\n">>, <<"{", "\n">>, <<DIGIT_RUN, "\n">> }

FileContents ==
  LET Terminated == UNION { [1..n -> FileLinePool] : n \in 0..MaxFileLines }
  IN  Terminated
      \cup { [c EXCEPT ![Len(c)] = SubSeq(@, 1, Len(@) - 1)] :
               c \in { t \in Terminated : Len(t) > 0 /\ Len(t[Len(t)]) > 1 } }

\* next() on the generator FileSource.read(): the checks of the path at
\* the first call, then the loop up to the next yield
file_next ==
  /\ file.state \in {"new", "open"}
  /\ IF file.state = "new" /\ file.kind # "file"
     THEN file' = [file EXCEPT
                     !.state = "raised",
                     !.err = IF file.kind = "missing"
                             THEN "SourceNotFoundError" ELSE "SourceError"]
     ELSE LET r == file_scan(file.mode, file.content, file.pos + 1)
          IN  file' = [file EXCEPT
                         !.pos = r.at,
                         !.yielded = IF r.outcome = "yield"
                                     THEN Append(@, r.event) ELSE @,
                         !.state = CASE r.outcome = "yield" -> "open"
                                     [] r.outcome = "end" -> "done"
                                     [] OTHER -> "raised",
                         !.err = r.err,
                         !.handle = r.outcome = "yield"]
  /\ UNCHANGED <<pipeVars, normStats, norm, snapshot, registry, sev, pipe>>

\* close() on the generator: the finally clause drops the file
file_close ==
  /\ file.state \in {"new", "open"}
  /\ file' = [file EXCEPT !.state = "closed", !.handle = FALSE]
  /\ UNCHANGED <<pipeVars, normStats, norm, snapshot, registry, sev, pipe>>

\* ------------------------------------------------------------------------
\* Direct calls of severity.py
\* ------------------------------------------------------------------------
NoSeverityCall ==
  [op |-> "none", priority |-> 0, label |-> PyNone, res |-> Ok(0),
   text |-> <<>>, holds |-> FALSE]

\* the labels and numbers handed to label_to_priority: the canonical labels
\* in upper, lower and mixed case, the aliases, numbers, digit strings and
\* strings that are neither
SeverityInputs ==
  LET Canonical == { PRIORITY_LABELS[n] : n \in 0..7 }
      Aliases == { a[1] : a \in LABEL_ALIASES }
      Mixed == { <<cs[1]>> \o str_lower(Tail(cs)) : cs \in Canonical }
      Capital == { <<"E","R","R">>, <<"W","a","r","n">>,
                   <<"C","r","i","t","i","c","a","l">>,
                   <<"E","M","E","R","G","E","N","C","Y">> }
      Numeric == { <<"0">>, <<"3">>, <<"7">>, <<"8">>, <<"0","3">>, <<"0","8">>,
                   <<"0","0","7">>, <<"1","0">> }
      Other == { <<>>, <<"f","a","t","a","l">>, <<" ","e","r","r","o","r">>,
                 <<"e","r","r","o","r"," ">>, <<"-","1">>, <<"3"," ">>,
                 <<"+","3">>, <<"^2">>, <<"1","^2">> }
  IN  { PyInt(n) : n \in -1..8 }
      \cup { PyStr(cs) : cs \in Canonical \cup { str_lower(c) : c \in Canonical }
                                \cup Mixed \cup Aliases \cup Capital
                                \cup Numeric \cup Other }

\* the thresholds handed to is_at_least_severity
SeverityThresholds ==
  { PyInt(n) : n \in -1..8 }
  \cup { PyStr(str_lower(PRIORITY_LABELS[n])) : n \in 0..7 }
  \cup { PyStr(a[1]) : a \in LABEL_ALIASES }
  \cup { PyStr(<<"f","a","t","a","l">>), PyStr(<<"7">>) }

\* priority_to_label(priority)
sev_priority_to_label ==
  /\ sev.op = "none"
  /\ \E priority \in -1..8 :
       sev' = [NoSeverityCall EXCEPT
                 !.op = "priority_to_label", !.priority = priority,
                 !.res = [priority_to_label(priority) EXCEPT !.v = 0],
                 !.text = priority_to_label(priority).v]
  /\ UNCHANGED <<pipeVars, normStats, norm, snapshot, registry, file, pipe>>

\* label_to_priority(priority_to_label(priority)): a caller takes a number
\* to its label and the label back to a number
sev_round_trip ==
  /\ sev.op = "none"
  /\ \E priority \in 0..7 :
       sev' = [NoSeverityCall EXCEPT
                 !.op = "round_trip", !.priority = priority,
                 !.text = priority_to_label(priority).v,
                 !.res = label_to_priority(PyStr(priority_to_label(priority).v))]
  /\ UNCHANGED <<pipeVars, normStats, norm, snapshot, registry, file, pipe>>

\* label_to_priority(label)
sev_label_to_priority ==
  /\ sev.op = "none"
  /\ \E label \in SeverityInputs :
       sev' = [NoSeverityCall EXCEPT
                 !.op = "label_to_priority", !.label = label,
                 !.res = label_to_priority(label)]
  /\ UNCHANGED <<pipeVars, normStats, norm, snapshot, registry, file, pipe>>

\* is_at_least_severity(priority, min_severity); the error of
\* label_to_priority passes through
sev_is_at_least_severity ==
  /\ sev.op = "none"
  /\ \E priority \in 0..7, min_severity \in SeverityThresholds :
       sev' = [NoSeverityCall EXCEPT
                 !.op = "is_at_least_severity", !.priority = priority,
                 !.label = min_severity,
                 !.res = label_to_priority(min_severity),
                 !.holds = /\ label_to_priority(min_severity).ok
                           /\ is_at_least_severity(priority, min_severity)]
  /\ UNCHANGED <<pipeVars, normStats, norm, snapshot, registry, file, pipe>>

\* ------------------------------------------------------------------------
\* Direct calls of the library: normalize_event and its statistics
\* ------------------------------------------------------------------------
\* library calls made in one run, and normalize_event calls made in a run
\* that draws its events from the large pool
MaxCalls == 4
MaxNormCalls == 2

NoCall ==
  [seq |-> 0, op |-> "none", event |-> RawEvent(PyNone, "none"), ok |-> FALSE, err |-> "none",
   rec |-> NoRecord, severity_num |-> 0]

\* the dict held by a caller of get_normalization_stats; alias says whether
\* it is the very dict object the module counts in
NoSnapshot == [taken |-> FALSE, alias |-> FALSE, values |-> ZeroNormStats]

\* a getter that hands out the module's own dict
get_normalization_stats_nocopy(stats) ==
  [taken |-> TRUE, alias |-> TRUE, values |-> stats]

\* get_normalization_stats / engine.get_diagnostics()["normalization"]:
\* _normalization_stats.copy()
get_normalization_stats(stats) ==
  [taken |-> TRUE, alias |-> FALSE, values |-> stats]

\* reset_normalization_stats / engine.reset_diagnostics: the global is bound
\* to a new dict of zeros
reset_normalization_stats(stats) == ZeroNormStats

\* one call normalize_event(event) with an event of the given pool
normalize_call(pool, bound) ==
  /\ norm.seq < bound
  /\ \E event \in pool :
       LET n == normalize_event(event, normStats)
       IN  /\ normStats' = n.stats
           /\ norm' = [seq |-> norm.seq + 1, op |-> "normalize", event |-> event,
                       ok |-> n.ok, err |-> n.err, rec |-> n.rec,
                       severity_num |-> 0]
           /\ snapshot' = IF snapshot.alias
                          THEN [snapshot EXCEPT !.values = n.stats]
                          ELSE snapshot
  /\ UNCHANGED <<pipeVars, registry, auxVars>>

\* the caller resets the statistics
consumer_reset ==
  /\ norm.seq < MaxCalls
  /\ normStats' = reset_normalization_stats(normStats)
  /\ norm' = [NoCall EXCEPT !.seq = norm.seq + 1, !.op = "reset"]
  /\ snapshot' = [snapshot EXCEPT !.alias = FALSE]
  /\ UNCHANGED <<pipeVars, registry, auxVars>>

\* the caller asks for the statistics
consumer_get_diagnostics ==
  /\ norm.seq < MaxCalls
  /\ snapshot' = get_normalization_stats(normStats)
  /\ norm' = [NoCall EXCEPT !.seq = norm.seq + 1, !.op = "get"]
  /\ UNCHANGED <<pipeVars, normStats, registry, auxVars>>

\* the caller writes into the dict it was given (diag["total"] += 1)
consumer_mutate_snapshot ==
  /\ norm.seq < MaxCalls
  /\ snapshot.taken
  /\ snapshot' = [snapshot EXCEPT !.values.total = @ + 1]
  /\ normStats' = IF snapshot.alias
                  THEN [normStats EXCEPT !.total = @ + 1]
                  ELSE normStats
  /\ norm' = [NoCall EXCEPT !.seq = norm.seq + 1, !.op = "mutate"]
  /\ UNCHANGED <<pipeVars, registry, auxVars>>

\* the events handed to normalize_event
JournalEvents ==
  LET OVERFLOW_US == <<"1","0","0","0","0","0","0","0","0","0","0","0","0",
                       "0","0","0","0","0","0","0","0","0","0","0","0","0">>
      YEAR_10000_US == <<"2","5","3","4","0","2","3","0","0","8","0","0",
                         "0","0","0","0","0","0">>
      JMessages == { PyAbsent, PyStr(<<"m">>), PyStr(<<>>), PyInt(5) }
      JPriorities ==
        { PyAbsent, PyNone, PyStr(<<"3">>), PyStr(<<"9">>), PyStr(<<"x">>),
          PyInt(0), PyStr(<<"7">>), PyStr(<<"-","1">>), PyInt(8) }
      JStamps ==
        { PyAbsent, PyNone, PyStr(<<"1","7">>), PyStr(<<"x">>),
          PyStr(OVERFLOW_US), PyStr(YEAR_10000_US) }
      JFallbackStamps == { PyAbsent, PyStr(<<"1","8">>), PyStr(<<"x">>) }
  IN  { RawEvent(JournalDict(m, p, PyStr(<<"1","7">>), PyAbsent, 0), "journalctl") :
          m \in JMessages, p \in { PyAbsent, PyStr(<<"3">>) } }
      \cup
      { RawEvent(JournalDict(PyStr(<<"m">>), p, PyStr(<<"1","7">>), PyAbsent, 0),
                 "journalctl") : p \in JPriorities }
      \cup
      { RawEvent(JournalDict(PyStr(<<"m">>), PyStr(<<"3">>), t1, t2, 0),
                 "journalctl") : t1 \in JStamps, t2 \in JFallbackStamps }

JsonlEvents ==
  LET LMessages == { PyAbsent, PyStr(<<>>), PyStr(<<"a">>), PyInt(0), PyInt(5) }
      LLevels ==
        { PyAbsent, PyNone, PyStr(<<>>), PyStr(<<"e","r","r","o","r">>),
          PyStr(<<"E","m","e","r","g","e","n","c","y">>), PyStr(<<"3">>),
          PyStr(<<"x">>) }
        \cup { PyInt(n) : n \in {-1, 0, 3, 7, 8} }
      LSeverities == { PyAbsent, PyInt(0), PyInt(3), PyStr(<<"e","r","r">>) }
      LStamps ==
        { PyAbsent, PyStr(<<"2","0","2","4","-","0","1","-","3","1">>),
          PyStr(<<"1","7">>), PyStr(<<"x">>), PyStr(TIME_T_S) }
  IN  { RawEvent([EmptyJsonl EXCEPT !.message = m, !.msg = g, !.log = l],
                 "file_jsonl") :
          m \in LMessages, g \in { PyAbsent, PyStr(<<>>), PyStr(<<"b">>) },
          l \in { PyAbsent, PyStr(<<"c">>) } }
      \cup
      { RawEvent([EmptyJsonl EXCEPT !.level = v, !.severity = w], "file_jsonl") :
          v \in LLevels, w \in LSeverities }
      \cup
      { RawEvent([EmptyJsonl EXCEPT !.timestamp = t, !.time = u], "file_jsonl") :
          t \in LStamps, u \in { PyAbsent, PyStr(<<"1","7">>) } }

TextEvents ==
  { RawEvent(PyStr(cs), "file_text") :
      cs \in { <<>>, <<"h","i">>, <<" ","E","R","R","O","R"," ","x","\t">> } }

\* events whose data is not of the type their normalizer takes, and events
\* of source types that have no normalizer
MismatchedEvents ==
  { RawEvent(d, "journalctl") : d \in { NotADict(0), PyStr(<<"m">>), PyNone } }
  \cup { RawEvent(d, "file_jsonl") : d \in { NotAJsonlDict, PyStr(<<"m">>), PyInt(5) } }
  \cup { RawEvent(d, "file_text") : d \in { EmptyJsonl, PyInt(5), PyNone } }
  \cup { RawEvent(d, t) : d \in { EmptyJsonl, PyStr(<<"m">>) },
                          t \in { "file", "docker" } }

NormEvents == JournalEvents \cup JsonlEvents \cup TextEvents \cup MismatchedEvents

\* one event for each counter, and one that fails
DiagEvents ==
  { RawEvent(JournalDict(PyAbsent, PyAbsent, PyAbsent, PyAbsent, 0), "journalctl"),
    RawEvent(JournalDict(PyStr(<<"m">>), PyStr(<<"9">>), PyStr(<<"1","7">>),
                         PyAbsent, 0), "journalctl"),
    RawEvent(JournalDict(PyStr(<<"m">>), PyStr(<<"3">>), PyStr(<<"1","7">>),
                         PyAbsent, 0), "journalctl"),
    RawEvent(PyStr(<<"h","i">>), "file_text"),
    RawEvent(NotADict(0), "journalctl") }

consumer_normalize == normalize_call(NormEvents, MaxNormCalls)

\* the caller constructs a LogRecord itself, with any number and any label
consumer_construct ==
  /\ norm.seq < MaxNormCalls
  /\ \E severity_num \in -1..8, label \in 0..7 :
       norm' = [NoCall EXCEPT
                  !.seq = norm.seq + 1, !.op = "construct",
                  !.severity_num = severity_num,
                  !.ok = LogRecord([kind |-> "now", us |-> <<>>], severity_num,
                                   PRIORITY_LABELS[label], <<"m">>, 0).ok,
                  !.err = LogRecord([kind |-> "now", us |-> <<>>], severity_num,
                                    PRIORITY_LABELS[label], <<"m">>, 0).err,
                  !.rec = LogRecord([kind |-> "now", us |-> <<>>], severity_num,
                                    PRIORITY_LABELS[label], <<"m">>, 0).rec]
  /\ UNCHANGED <<pipeVars, normStats, snapshot, registry, auxVars>>

diag_normalize == normalize_call(DiagEvents, MaxCalls)

\* ------------------------------------------------------------------------
\* Initial states
\* ------------------------------------------------------------------------
NoFilter ==
  [severity |-> PyNone, min_severity |-> PyNone, keyword |-> PyNone,
   case_sensitive |-> FALSE, pulled |-> 0]

InitState ==
  /\ active = "consumer"
  /\ pc = [f \in Frames |-> "new"]
  /\ err = [f \in Frames |-> "none"]
  /\ src = NewSource
  /\ child = NoChild
  /\ lines = <<>>
  /\ events = <<>>
  /\ exit = NoExit
  /\ fetched = <<>>
  /\ normStats = ZeroNormStats
  /\ out = <<>>
  /\ norm = NoCall
  /\ snapshot = NoSnapshot
  /\ registry = NoRegistryCall
  /\ sev = NoSeverityCall

InitCommon ==
  /\ InitState
  /\ file = NoFile
  /\ pipe = NoPipe

Limits == {<<>>} \cup { <<n>> : n \in 0..MaxLimit }

\* a consumer that drives JournalctlSource.read() itself (as diagnose.py)
InitJournal ==
  /\ InitCommon
  /\ chain = <<"read">>
  /\ fetch = [source |-> "instance", limit |-> <<>>, count |-> 0, entered |-> FALSE]
  /\ filt = NoFilter
  /\ records = [items |-> <<>>, pos |-> 0]

NextJournal ==
  \/ consumer_next
  \/ consumer_close
  \/ consumer_source_close
  \/ read_Popen
  \/ read_line
  \/ read_stream_error
  \/ read_eof
  \/ read_wait
  \/ child_exit

SpecJournal == InitJournal /\ [][NextJournal]_vars

\* fetch_logs over a journal source given by name or as an instance
InitFetch ==
  /\ InitCommon
  /\ chain = <<"fetch", "read">>
  /\ \E source \in {"instance", "journalctl", "docker"}, limit \in Limits :
       fetch = [source |-> source, limit |-> limit, count |-> 0, entered |-> FALSE]
  /\ filt = NoFilter
  /\ records = [items |-> <<>>, pos |-> 0]

NextFetch ==
  \/ consumer_next
  \/ consumer_close
  \/ fetch_start
  \/ fetch_pulled
  \/ fetch_resume
  \/ read_Popen
  \/ read_line
  \/ read_stream_error
  \/ read_eof
  \/ read_wait
  \/ child_exit

SpecFetch == InitFetch /\ [][NextFetch]_vars

\* filter_logs over a list of records
RecordPool ==
  { LogRecord([kind |-> "now", us |-> <<>>], n, priority_to_label(n).v, m, PyNone).rec :
      n \in {0, 3, 4}, m \in { <<"A","b">>, <<"a">> } }

RECURSIVE SeqsUpTo(_, _)
SeqsUpTo(S, n) ==
  IF n = 0 THEN { <<>> }
  ELSE LET shorter == SeqsUpTo(S, n - 1)
       IN  shorter \cup { Append(q, x) : q \in shorter, x \in S }

SeverityOptions ==
  { PyNone, PyInt(0), PyInt(3), PyStr(<<"E","r","r">>), PyStr(<<"9">>) }
MinSeverityOptions == { PyNone, PyInt(0), PyStr(<<"w","a","r","n">>) }
KeywordOptions == { PyNone, PyStr(<<>>), PyStr(<<"a">>), PyStr(<<"A","B">>) }

InitFilter ==
  /\ InitCommon
  /\ chain = <<"filter", "list">>
  /\ fetch = [source |-> "instance", limit |-> <<>>, count |-> 0, entered |-> FALSE]
  /\ \E severity \in SeverityOptions, min_severity \in MinSeverityOptions,
        keyword \in KeywordOptions, case_sensitive \in BOOLEAN :
       filt = [severity |-> severity, min_severity |-> min_severity,
               keyword |-> keyword, case_sensitive |-> case_sensitive,
               pulled |-> 0]
  /\ \E items \in SeqsUpTo(RecordPool, MaxRecords) :
       records = [items |-> items, pos |-> 0]

NextFilter ==
  \/ consumer_next
  \/ consumer_close
  \/ filter_start
  \/ filter_resume
  \/ filter_pulled
  \/ list_next

SpecFilter == InitFilter /\ [][NextFilter]_vars

\* fetch_and_filter_logs: filter_logs over fetch_logs over a journal source
FetchFilterOptions ==
  { NoFilter,
    [NoFilter EXCEPT !.severity = PyInt(3)],
    [NoFilter EXCEPT !.min_severity = PyStr(<<"e","r","r","o","r">>),
                     !.keyword = PyStr(<<"b">>)],
    [NoFilter EXCEPT !.severity = PyInt(3), !.min_severity = PyInt(4)] }

InitFetchFilter ==
  /\ InitCommon
  /\ chain = <<"filter", "fetch", "read">>
  /\ \E limit \in Limits :
       fetch = [source |-> "instance", limit |-> limit, count |-> 0,
                entered |-> FALSE]
  /\ filt \in FetchFilterOptions
  /\ records = [items |-> <<>>, pos |-> 0]

NextFetchFilter ==
  \/ consumer_next
  \/ consumer_close
  \/ filter_start
  \/ filter_resume
  \/ filter_pulled
  \/ fetch_start
  \/ fetch_pulled
  \/ fetch_resume
  \/ read_Popen
  \/ read_line
  \/ read_stream_error
  \/ read_eof
  \/ read_wait
  \/ child_exit

SpecFetchFilter == InitFetchFilter /\ [][NextFetchFilter]_vars

\* filter_logs over a list of records or over fetch_logs
InitLazy == InitFilter \/ InitFetchFilter

NextLazy ==
  \/ chain = <<"filter", "list">> /\ NextFilter
  \/ chain = <<"filter", "fetch", "read">> /\ NextFetchFilter

SpecLazy == InitLazy /\ [][NextLazy]_vars

\* a caller that uses the library functions directly
InitLibrary ==
  /\ InitCommon
  /\ chain = <<>>
  /\ fetch = [source |-> "instance", limit |-> <<>>, count |-> 0, entered |-> FALSE]
  /\ filt = NoFilter
  /\ records = [items |-> <<>>, pos |-> 0]

\* normalize_event over events of every kind
InitNormalize == InitLibrary

NextNormalize ==
  \/ consumer_normalize
  \/ consumer_reset

SpecNormalize == InitNormalize /\ [][NextNormalize]_vars

\* LogRecords made by normalize_event and by a caller
InitRecord == InitLibrary

NextRecord ==
  \/ consumer_normalize
  \/ consumer_construct

SpecRecord == InitRecord /\ [][NextRecord]_vars

\* the statistics and the dicts handed out of them
InitDiagnostics == InitLibrary

NextDiagnostics ==
  \/ diag_normalize
  \/ consumer_reset
  \/ consumer_get_diagnostics
  \/ consumer_mutate_snapshot

SpecDiagnostics == InitDiagnostics /\ [][NextDiagnostics]_vars

\* the registry after engine.py was imported
InitRegistry == InitLibrary

NextRegistry ==
  \/ registry_register
  \/ registry_list
  \/ registry_clear
  \/ registry_get

SpecRegistry == InitRegistry /\ [][NextRegistry]_vars

\* one call of a function of severity.py, with any of the inputs
InitSeverity == InitLibrary

NextSeverity ==
  \/ sev_priority_to_label
  \/ sev_round_trip
  \/ sev_label_to_priority
  \/ sev_is_at_least_severity

SpecSeverity == InitSeverity /\ [][NextSeverity]_vars

\* a consumer that iterates over read() to its end, and a child that makes
\* any sequence of writes and then exits; both processes keep running as
\* long as they are not blocked
InitPipes ==
  /\ InitState
  /\ file = NoFile
  /\ chain = <<>>
  /\ fetch = [source |-> "instance", limit |-> <<>>, count |-> 0, entered |-> FALSE]
  /\ filt = NoFilter
  /\ records = [items |-> <<>>, pos |-> 0]
  /\ \E script \in UNION { [1..n -> {"out", "err"}] : n \in 0..MaxWrites },
        returncode \in ExitCodes :
       pipe = [NoPipe EXCEPT !.parent = "new", !.script = script,
                             !.returncode = returncode]

PipeChild == pipe_child_write \/ pipe_child_exit

PipeParent == pipe_Popen \/ pipe_read_stdout \/ pipe_wait

NextPipes ==
  \/ pipe_Popen
  \/ pipe_child_write
  \/ pipe_child_exit
  \/ pipe_read_stdout
  \/ pipe_consumer_next
  \/ pipe_wait

SpecPipes ==
  /\ InitPipes /\ [][NextPipes]_vars
  /\ WF_vars(PipeChild) /\ WF_vars(PipeParent) /\ WF_vars(pipe_consumer_next)

\* a consumer that drives FileSource.read() over a file of any content
InitFile ==
  /\ InitState
  /\ pipe = NoPipe
  /\ chain = <<>>
  /\ fetch = [source |-> "instance", limit |-> <<>>, count |-> 0, entered |-> FALSE]
  /\ filt = NoFilter
  /\ records = [items |-> <<>>, pos |-> 0]
  /\ \E kind \in {"file", "dir", "missing"}, mode \in {"text", "jsonl"},
        content \in FileContents :
       /\ kind # "file" => content = <<>>
       /\ file = [NoFile EXCEPT !.state = "new", !.kind = kind,
                                !.mode = mode, !.content = content]

NextFile ==
  \/ file_next
  \/ file_close

SpecFile == InitFile /\ [][NextFile]_vars

\* given by name
InitGetSource == InitRegistry \/ (InitFetch /\ fetch.source # "instance")

NextGetSource ==
  \/ chain = <<>> /\ NextRegistry
  \/ chain # <<>> /\ NextFetch

SpecGetSource == InitGetSource /\ [][NextGetSource]_vars

\* ------------------------------------------------------------------------
\* Properties
\* ------------------------------------------------------------------------
LimitSet == fetch.limit # <<>>
LimitValue == fetch.limit[1]

\* C1: once fetch_logs has entered its with block on the source, close() has
\* been called on the source by the time the fetch sequence has terminated,
\* whether it ended by exhaustion, by the limit, by an error of read() or of
\* normalize_event, or by the consumer closing it.
C1_CloseOnEveryExit ==
  (fetch.entered /\ Finished("fetch")) => src.closeCalls >= 1

\* the consumer closed the fetch sequence early, with the child still running
C1_Witness ==
  /\ fetch.entered /\ pc.fetch = "closed"
  /\ src.closeCalls = 1 /\ child.sigterm = 1

\* C2: with a limit L >= 0 fetch_logs never yields more than L records, and
\* it ends with fewer than L records only when the source is exhausted.
C2_LimitCapsOutput ==
  LimitSet =>
    /\ Len(fetched) <= LimitValue
    /\ (pc.fetch = "done" /\ Len(fetched) < LimitValue) => pc.read = "done"

\* C3: fetch_and_filter_logs applies the limit after filtering: for a limit
\* L >= 1 it returns at most L records, and fewer than L only when the source
\* has no further record (a record the filter drops does not use up the limit).
C3_LimitAfterFiltering ==
  (LimitSet /\ LimitValue >= 1 /\ pc.filter = "done") =>
    /\ Len(out) <= LimitValue
    /\ Len(out) < LimitValue => pc.read = "done"

\* the criteria of filter_logs, stated on the resolved thresholds and on the
\* characters of message and keyword
C4_Satisfies(r) ==
  /\ filt.severity.t # "none" =>
       r.severity_num = label_to_priority(filt.severity).v
  /\ filt.min_severity.t # "none" =>
       r.severity_num <= label_to_priority(filt.min_severity).v
  /\ filt.keyword.t # "none" =>
       \E off \in 0..(Len(r.message) - Len(filt.keyword.s)) :
         \A j \in 1..Len(filt.keyword.s) :
           IF filt.case_sensitive
           THEN r.message[off + j] = filt.keyword.s[j]
           ELSE lower_char(r.message[off + j]) = lower_char(filt.keyword.s[j])

ValidOptions ==
  /\ ~ (filt.severity.t # "none" /\ filt.min_severity.t # "none")
  /\ filt.severity.t # "none" => label_to_priority(filt.severity).ok
  /\ filt.min_severity.t # "none" => label_to_priority(filt.min_severity).ok

\* C4: for valid options the output of filter_logs is exactly the input
\* records pulled so far that satisfy every given criterion, in input order,
\* unaltered; when the filter ends it has gone through the whole input.
C4_FilterIsSubsequence ==
  ValidOptions =>
    /\ pc.filter \in {"yield", "done"} => filt.pulled = records.pos
    /\ out = SelectSeq(SubSeq(records.items, 1, filt.pulled), C4_Satisfies)
    /\ pc.filter = "done" => filt.pulled = Len(records.items)

\* a threshold and a case-folded keyword together kept one record of two
C4_Witness ==
  /\ pc.filter = "done"
  /\ filt.min_severity = PyStr(<<"w","a","r","n">>)
  /\ filt.keyword = PyStr(<<"A","B">>) /\ ~ filt.case_sensitive
  /\ Len(records.items) = 2 /\ Len(out) = 1
  /\ out[1] = records.items[2]
  /\ records.items[1].severity_num = 4

BothSeverities == filt.severity.t # "none" /\ filt.min_severity.t # "none"

\* C5: with both severity and min_severity given (0 included), filter_logs
\* pulls no record from its input and yields none; its first step ends it
\* with a ValueError.
C5_BothSeveritiesFail ==
  BothSeverities =>
    /\ filt.pulled = 0 /\ records.pos = 0
    /\ pc.list \in {"new", "closed"}
    /\ out = <<>>
    /\ pc.filter \in {"new", "raised", "closed"}
    /\ pc.filter = "raised" => err.filter = "ValueError"

\* severity=0 with min_severity=0 over a non-empty input has raised
C5_Witness ==
  /\ filt.severity = PyInt(0) /\ filt.min_severity = PyInt(0)
  /\ Len(records.items) > 0
  /\ pc.filter = "raised" /\ err.filter = "ValueError"
  /\ active = "consumer"

\* the RawEvents of the JSON lines of a stdout stream, in line order
RECURSIVE EventsOf(_)
EventsOf(ls) ==
  IF ls = <<>> THEN <<>>
  ELSE LET front == EventsOf(SubSeq(ls, 1, Len(ls) - 1))
           last == ls[Len(ls)]
       IN  IF last.kind = "json"
           THEN Append(front, RawEvent(last.data, "journalctl"))
           ELSE front

\* C6: the raw events are the JSON lines of stdout in line order; the k-th
\* record of fetch_logs is the normalization of the k-th raw event, with no
\* event skipped; the filter output is taken from the fetched records in
\* their order, none twice.
C6_OrderPreserved ==
  /\ events = EventsOf(lines)
  /\ Len(fetched) <= Len(events)
  /\ \A k \in 1..Len(fetched) :
       /\ fetched[k].raw = events[k].data
       /\ fetched[k] = normalize_event(events[k], ZeroNormStats).rec
  /\ pc.fetch = "yield" => Len(fetched) = Len(events)
  /\ \E pick \in [1..Len(out) -> 1..Len(fetched)] :
       /\ \A k \in 1..Len(out) : out[k] = fetched[pick[k]]
       /\ \A k \in 1..(Len(out) - 1) : pick[k] < pick[k + 1]

\* two different entries with a skipped line between them, both fetched and
\* the second passed by the filter
C6_Witness ==
  /\ Len(lines) = 3 /\ lines[2].kind # "json"
  /\ Len(fetched) = 2 /\ fetched[1].severity_num = 6 /\ fetched[2].severity_num = 3
  /\ filt.severity = PyInt(3)
  /\ Len(out) = 1 /\ out[1].raw.CURSOR = 3

CountKind(ls, kind) == Len(SelectSeq(ls, LAMBDA l : l.kind = kind))

C8_AnySilentExitIsEmptyResult ==
  (exit.seen /\ exit.returncode # 0 /\ exit.stderr = <<>>) => pc.read = "done"

\* C8 amended: exit status 1 with empty (or all-whitespace) stderr ends read()
\* normally; any other non-zero exit status with such stderr raises the
\* generic source error.
C8_SilentExitOneIsEmptyResult ==
  (exit.seen /\ exit.returncode # 0 /\ str_blank(exit.stderr)) =>
    IF exit.returncode = 1
    THEN pc.read = "done" /\ err.read = "none"
    ELSE pc.read = "raised" /\ err.read = "SourceError"

\* the child exited with status 1 and wrote nothing: read() ended normally
C8_Witness ==
  /\ exit.seen /\ exit.returncode = 1 /\ exit.stderr = <<>>
  /\ pc.read = "done"

\* stderr texts that mention a denial
DenialTexts ==
  { <<"P","e","r","m","i","s","s","i","o","n"," ","d","e","n","i","e","d","\n">>,
    <<"A","C","C","E","S","S"," ","D","E","N","I","E","D">> }

C9_Classified ==
  exit.seen =>
    CASE exit.returncode = 0 ->
           pc.read = "done" /\ err.read = "none"
      [] exit.returncode # 0 /\ exit.stderr \in DenialTexts ->
           pc.read = "raised" /\ err.read = "SourcePermissionError"
      [] exit.returncode = 1 /\ exit.stderr = <<>> ->
           pc.read = "done" /\ err.read = "none"
      [] OTHER ->
           (exit.stderr \in {<<>>, <<" ", "\n">>}
              \/ /\ pc.read = "raised" /\ err.read = "SourceError"
                 /\ exit.message = exit.stderr)

C10_ReadTerminatesChild ==
  pc.read \in {"raised", "closed"} => child.state # "running"

\* one call of close(): the step that counts it
C11_CloseStep == src'.closeCalls = src.closeCalls + 1

\* C11: every call of close() returns without raising and leaves the handle
\* cleared and the generator positions alone.  A call that finds a handle
\* whose child is still running sends SIGTERM once, and SIGKILL once exactly
\* when the child did not exit within the wait timeout, after which the child
\* is not running; every other call (handle cleared by an earlier close(),
\* never started, child already exited) sends no signal.
C11_CloseIdempotentAndSafe ==
  [][C11_CloseStep =>
       /\ ~ src'.process
       /\ src'.stats = src.stats
       /\ pc' = pc /\ err' = err /\ active' = active
       /\ IF src.process /\ child.state = "running"
          THEN /\ child'.state = "exited"
               /\ child'.sigterm = child.sigterm + 1
               /\ child'.sigkill =
                    child.sigkill + (IF child'.termDelay > WAIT_TIMEOUT THEN 1 ELSE 0)
          ELSE child' = child]_vars

\* close() was called twice while read() was suspended at a yield; the first
\* call had to kill the child, the second sent nothing
C11_Witness ==
  /\ pc.read = "yield"
  /\ src.closeCalls = 2 /\ ~ src.process
  /\ child.state = "exited" /\ child.sigterm = 1 /\ child.sigkill = 1


\* C12: fetch_logs never ends with an error that the content of a line
\* caused: whatever JSON value a line holds, the line is skipped or gives a
\* best-effort record and the stream goes on.
C12_DataQualityNeverFatal ==
  pc.fetch = "raised" =>
    err.fetch \notin {"NormalizationError", "OverflowError", "ValueError"}

\* a direct call of normalize_event on a journal event that is a mapping
JournalCallStep ==
  /\ norm'.seq = norm.seq + 1 /\ norm'.op = "normalize"
  /\ norm'.event.source_type = "journalctl" /\ is_dict(norm'.event.data)

\* the number a PRIORITY value stands for, -1 when it is not a number
C13_Number(p) ==
  IF p.t = "int" THEN p.i
  ELSE IF p.t = "str" /\ str_isdigit(p.s) THEN digits_to_int(p.s)
  ELSE -1

\* what the call did about the priority: which counter it raised, and the
\* severity of the record when the call returned one
C13_Outcome(missing, invalid, severity) ==
  /\ normStats'.missing_priority = normStats.missing_priority + missing
  /\ normStats'.invalid_priority = normStats.invalid_priority + invalid
  /\ norm'.ok => norm'.rec.severity_num = severity

C14_Parseable(v) == v.t = "str" /\ str_isdigit(v.s) /\ Len(v.s) <= 17

\* C14: the timestamp of a journal record comes from the primary field when
\* that holds a parseable value, else from the fallback field when that holds
\* one, and then missing_timestamp is unchanged; when neither field is present
\* or parseable the wall clock is used and missing_timestamp is raised by one.
C14_TimestampFallbackChain ==
  [][JournalCallStep =>
       LET first == norm'.event.data.SOURCE_REALTIME_TIMESTAMP
           second == norm'.event.data.REALTIME_TIMESTAMP
       IN  IF C14_Parseable(first) \/ C14_Parseable(second)
           THEN /\ normStats'.missing_timestamp = normStats.missing_timestamp
                /\ norm'.ok
                /\ norm'.rec.timestamp =
                     [kind |-> "epoch_us",
                      us |-> dec_canon(IF C14_Parseable(first) THEN first.s
                                       ELSE second.s)]
           ELSE /\ normStats'.missing_timestamp = normStats.missing_timestamp + 1
                /\ norm'.ok
                /\ norm'.rec.timestamp.kind = "now"]_vars

\* a direct call of normalize_event on a JSON-Lines event that is a mapping
JsonlCallStep ==
  /\ norm'.seq = norm.seq + 1 /\ norm'.op = "normalize"
  /\ norm'.event.source_type = "file_jsonl" /\ is_dict(norm'.event.data)

\* the value of the first field of the list that the entry has
RECURSIVE FirstPresent(_, _)
FirstPresent(data, keys) ==
  IF keys = <<>> THEN PyAbsent
  ELSE IF data[keys[1]].t # "absent" THEN data[keys[1]]
  ELSE FirstPresent(data, Tail(keys))

\* C15: the severity of a JSON-Lines record is taken from the first present
\* of the fields level, severity: an integer n in 0..7 gives severity_num n,
\* an integer outside 0..7 gives severity_num 6.
C15_JsonlIntegerSeverity ==
  [][JsonlCallStep =>
       LET v == FirstPresent(norm'.event.data, <<"level", "severity">>)
       IN  v.t = "int" =>
             /\ norm'.ok
             /\ norm'.rec.severity_num = (IF v.i \in 0..7 THEN v.i ELSE 6)]_vars

\* C16: the message of a JSON-Lines record is the value of the first present
\* of the fields message, msg, log, as a string (no present field is passed
\* over for a later one), and the empty string when none of the three is
\* present.
C16_JsonlFirstPresentMessage ==
  [][JsonlCallStep =>
       LET v == FirstPresent(norm'.event.data, <<"message", "msg", "log">>)
       IN  /\ norm'.ok
           /\ norm'.rec.message = (IF v.t = "absent" THEN <<>> ELSE py_str(v))]_vars

\* a direct call of normalize_event
NormalizeStep == norm'.seq = norm.seq + 1 /\ norm'.op = "normalize"

\* the event has no normalizer, or its data is not of the normalizer's type
C17_Mismatch(e) ==
  \/ e.source_type \notin {"journalctl", "file_jsonl", "file_text"}
  \/ e.source_type \in {"journalctl", "file_jsonl"} /\ ~ is_dict(e.data)
  \/ e.source_type = "file_text" /\ ~ is_str(e.data)

\* C17: normalize_event fails with a NormalizationError exactly when the
\* source type is none of journalctl / file_jsonl / file_text, or the data is
\* not a mapping for journalctl / file_jsonl, or not a string for file_text;
\* such a call gives no record, raises total by one and leaves the other
\* counters as they were.
C17_NormalizationErrorCases ==
  [][NormalizeStep =>
       /\ norm'.err = "NormalizationError" <=> C17_Mismatch(norm'.event)
       /\ C17_Mismatch(norm'.event) =>
            /\ ~ norm'.ok /\ norm'.rec = NoRecord
            /\ normStats' = [normStats EXCEPT !.total = @ + 1]]_vars

\* a text event that carries a mapping failed on the second call, after a
\* call that had counted a missing priority
C17_Witness ==
  /\ norm.seq = 2 /\ norm.op = "normalize"
  /\ norm.event.source_type = "file_text" /\ is_dict(norm.event.data)
  /\ ~ norm.ok /\ norm.err = "NormalizationError"
  /\ normStats.total = 2 /\ normStats.missing_priority = 1

\* C18: normalizing a file_text event whose data is a string never fails; the
\* record has the line as its message, character for character, severity 6
\* with label INFO and raw {"line": message}; only the total counter moves.
C18_TextLineVerbatim ==
  [][(NormalizeStep /\ norm'.event.source_type = "file_text"
        /\ is_str(norm'.event.data)) =>
       /\ norm'.ok /\ norm'.err = "none"
       /\ norm'.rec.message = norm'.event.data.s
       /\ norm'.rec.severity_num = 6
       /\ norm'.rec.severity_label = <<"I","N","F","O">>
       /\ norm'.rec.raw = [line |-> norm'.event.data.s]
       /\ normStats' = [normStats EXCEPT !.total = @ + 1]]_vars

\* the empty line, and a line with blanks around it, each gave a record
C18_Witness ==
  /\ norm.seq = 2 /\ norm.op = "normalize" /\ norm.ok
  /\ norm.event.source_type = "file_text" /\ is_str(norm.event.data)
  /\ norm.rec.message \in { <<>>, <<" ","E","R","R","O","R"," ","x","\t">> }
  /\ normStats.total = 2

\* a library call of the given kind
LibraryStep(op) == norm'.seq = norm.seq + 1 /\ norm'.op = op

C19_Counters ==
  {"total", "missing_priority", "invalid_priority", "missing_timestamp",
   "missing_message"}

\* C19: the five counters are 0 before the first call; no call of
\* normalize_event lowers a counter; a reset sets all five to 0;
\* get_diagnostics hands out the values of that moment in a dict of its own:
\* later normalizations and resets leave the dict as it is, and writing into
\* the dict leaves the counters as they are.
C19_StatisticsLifecycle ==
  /\ [](norm.seq = 0 => normStats = ZeroNormStats)
  /\ [][LibraryStep("normalize") =>
          \A c \in C19_Counters : normStats'[c] >= normStats[c]]_vars
  /\ [][LibraryStep("reset") => normStats' = ZeroNormStats]_vars
  /\ [][LibraryStep("get") =>
          /\ snapshot'.values = normStats
          /\ normStats' = normStats]_vars
  /\ [][(LibraryStep("normalize") \/ LibraryStep("reset")) =>
          snapshot'.values = snapshot.values]_vars
  /\ [][LibraryStep("mutate") =>
          /\ snapshot'.values # snapshot.values
          /\ normStats' = normStats]_vars

\* a dict handed out after one call still shows that call, and the change
\* its holder made to it, after a reset and a further call
C19_Witness ==
  /\ norm.seq = 4 /\ norm.op = "reset"
  /\ snapshot.taken
  /\ snapshot.values.missing_priority = 1 /\ snapshot.values.total = 2
  /\ normStats = ZeroNormStats

\* the registrations of the log before position k that took effect: the
\* first one of each name
C20_FirstOf(log, name) ==
  log[CHOOSE k \in 1..Len(log) :
        /\ log[k].name = name
        /\ \A j \in 1..(k - 1) : log[j].name # name]

C20_Names(log) == { log[k].name : k \in 1..Len(log) }

\* C20: after any sequence of register_source calls since the registry was
\* last empty, exactly the names registered are bound, each to the
\* constructor of its first registration; a call with a name that was
\* already bound failed with the already-registered error (ValueError) and
\* changed nothing; list_sources() is the distinct names in ascending
\* lexicographic order.
C20_FirstRegistrationWins ==
  /\ [](/\ DOMAIN registry.sources = C20_Names(registry.log)
        /\ \A name \in C20_Names(registry.log) :
             registry.sources[name] = C20_FirstOf(registry.log, name).class)
  /\ [][registry'.op = "register" /\ Len(registry'.log) = Len(registry.log) + 1 =>
          LET call == registry'.log[Len(registry'.log)]
          IN  IF call.name \in C20_Names(registry.log)
              THEN /\ registry'.err = "ValueError"
                   /\ registry'.sources = registry.sources
              ELSE /\ registry'.err = "none"
                   /\ registry'.sources[call.name] = call.class]_vars
  /\ [](registry.op = "list" =>
          /\ Len(registry.listed) = Cardinality(C20_Names(registry.log))
          /\ { registry.listed[k] : k \in 1..Len(registry.listed) } =
               C20_Names(registry.log)
          /\ \A k \in 1..(Len(registry.listed) - 1) :
               str_less(NameChars[registry.listed[k]],
                        NameChars[registry.listed[k + 1]]))

\* "file" was registered a second time with another constructor and is
\* still bound to the first; the list has the capitalised name first
C20_Witness ==
  /\ registry.op = "list"
  /\ Len(registry.log) = 3
  /\ registry.log[1] = Registration("file", "FileSource")
  /\ registry.log[2] = Registration("file", "JournalctlSource")
  /\ registry.log[3].name = "Zlog"
  /\ registry.sources["file"] = "FileSource"
  /\ registry.listed = <<"Zlog", "file">>

\* a direct call of get_source
GetStep == chain = <<>> /\ registry'.op = "get"

C21_Sorted(names) ==
  \A k \in 1..(Len(names) - 1) :
    str_less(NameChars[names[k]], NameChars[names[k + 1]])

\* C21: get_source(name, options) fails with KeyError exactly when the name
\* is unbound, the error then lists the registered names (sorted) and no
\* instance is made; for a bound name the bound constructor is called with
\* exactly the options, and the instance it returns is one that no earlier
\* call returned; the registry is the same after the call.  fetch_logs
\* with an unbound source name ends with the KeyError at its first step,
\* having yielded no record and started no child.
C21_GetSource ==
  /\ [][GetStep =>
          LET name == registry'.call.name
              kwargs == registry'.call.kwargs
              bound == name \in DOMAIN registry.sources
          IN  /\ registry'.sources = registry.sources
              /\ registry'.log = registry.log
              /\ (registry'.err = "KeyError") <=> ~ bound
              /\ ~ bound =>
                   /\ registry'.got = NoInstance
                   /\ registry'.made = registry.made
                   /\ C21_Sorted(registry'.listed)
                   /\ Len(registry'.listed) = Cardinality(DOMAIN registry.sources)
                   /\ { registry'.listed[k] : k \in 1..Len(registry'.listed) }
                        = DOMAIN registry.sources
              /\ bound /\ construct(registry.sources[name], kwargs) = "none" =>
                   /\ registry'.err = "none"
                   /\ registry'.got.class = registry.sources[name]
                   /\ registry'.got.kwargs = kwargs
                   /\ registry'.got.id \notin 0..registry.made
                   /\ registry'.made = registry'.got.id
              /\ bound /\ construct(registry.sources[name], kwargs) # "none" =>
                   /\ registry'.err = construct(registry.sources[name], kwargs)
                   /\ registry'.got = NoInstance]_vars
  /\ [](chain # <<>> /\ fetch.source \notin DOMAIN registry.sources =>
          /\ fetched = <<>> /\ events = <<>> /\ child = NoChild
          /\ ~ fetch.entered
          /\ pc.fetch \notin {"new", "closed"} =>
               /\ pc.fetch = "raised" /\ err.fetch = "KeyError"
               /\ active = "consumer")

\* after the registry was cleared and two names registered, a first call
\* returned an instance and this call, for the name that is not bound, failed
\* with the two names listed
C21_Witness ==
  /\ registry.op = "get" /\ registry.err = "KeyError"
  /\ registry.call.name = "journalctl"
  /\ registry.listed = <<"Zlog", "file">>
  /\ registry.made = 1

\* ------------------------------------------------------------------------
\* severity.py
\* ------------------------------------------------------------------------
\* C22: taking a number of 0..7 to its label and the label back gives the
\* number again, so the label of that number is the label one started from;
\* the eight canonical labels are pairwise distinct.
C22_RoundTrip ==
  /\ \A m, n \in 0..7 : m # n => PRIORITY_LABELS[m] # PRIORITY_LABELS[n]
  /\ sev.op = "round_trip" =>
       /\ sev.text = PRIORITY_LABELS[sev.priority]
       /\ sev.res.ok
       /\ sev.res.v = sev.priority
       /\ priority_to_label(sev.res.v).ok
       /\ priority_to_label(sev.res.v).v = sev.text

C22_Witness ==
  /\ sev.op = "round_trip"
  /\ sev.priority = 4
  /\ sev.text = <<"W","A","R","N","I","N","G">>
  /\ sev.res = Ok(4)

C23_Known(cs) == \E p \in LABEL_PRIORITIES : p[1] = str_lower(cs)

C23_DigitString(cs) ==
  /\ Len(cs) > 0
  /\ \A k \in 1..Len(cs) : \E d \in 1..10 : DIGITS[d] = cs[k]

\* C23: label_to_priority resolves a canonical label in any letter case, an
\* alias, an integer or a digit string; a result is in 0..7; an unrecognized
\* string fails with the unknown-label error and a number or digit string
\* out of bounds with the out-of-range error.  is_at_least_severity(n, t)
\* is true exactly when n <= label_to_priority(t).
C23_LabelToPriority ==
  /\ sev.op = "label_to_priority" =>
       /\ sev.res.ok => sev.res.v \in 0..7
       /\ sev.label.t = "int" =>
            IF sev.label.i \in 0..7 THEN sev.res = Ok(sev.label.i)
            ELSE sev.res = Fail("out_of_range")
       /\ sev.label.t = "str" /\ C23_Known(sev.label.s) =>
            /\ sev.res.ok
            /\ <<str_lower(sev.label.s), sev.res.v>> \in LABEL_PRIORITIES
       /\ sev.label.t = "str" /\ C23_DigitString(sev.label.s) =>
            IF digits_to_int(sev.label.s) \in 0..7
            THEN sev.res = Ok(digits_to_int(sev.label.s))
            ELSE sev.res = Fail("out_of_range")
       /\ sev.label.t = "str" /\ ~ C23_Known(sev.label.s)
            /\ ~ C23_DigitString(sev.label.s) =>
            sev.res = Fail("unknown_label")
  /\ sev.op = "is_at_least_severity" /\ sev.res.ok =>
       (sev.holds <=> sev.priority <= sev.res.v)

\* ------------------------------------------------------------------------
\* sources/file.py
\* ------------------------------------------------------------------------
\* the line of number k gives an event: it is not empty once its trailing
\* newline characters are stripped and, in jsonl mode, it is a JSON document
C24_Gives(mode, content, k) ==
  /\ str_rstrip_newlines(content[k]) # <<>>
  /\ mode = "jsonl" => json_valid(str_rstrip_newlines(content[k]))

RECURSIVE C24_Events(_, _, _)
C24_Events(mode, content, upto) ==
  IF upto = 0 THEN <<>>
  ELSE C24_Events(mode, content, upto - 1)
       \o (IF C24_Gives(mode, content, upto)
           THEN <<FileEvent(str_rstrip_newlines(content[upto]),
                            IF mode = "jsonl" THEN "file_jsonl" ELSE "file_text",
                            upto)>>
           ELSE <<>>)

\* C24: reading a file yields, in file order, one RawEvent per line that is
\* not blank after its trailing newline characters are stripped (in jsonl
\* mode: and that parses as JSON; a line that does not parse is skipped
\* silently and reading goes on); the line number of an event is the 1-based
\* position of its line in the file, so the line numbers strictly increase.
C24_FileLines ==
  file.state \in {"open", "done", "raised", "closed"} /\ file.kind = "file" =>
    /\ file.yielded = C24_Events(file.mode, file.content, file.pos)
    /\ \A j, k \in 1..Len(file.yielded) :
         j < k => file.yielded[j].metadata.line < file.yielded[k].metadata.line
    /\ file.state = "open" =>
         /\ file.yielded # <<>>
         /\ file.yielded[Len(file.yielded)].metadata.line = file.pos
    /\ file.state = "done" => file.pos = Len(file.content)
    /\ file.state # "raised"

\* ------------------------------------------------------------------------
\* model.py: LogRecord
\* ------------------------------------------------------------------------
\* C25: every LogRecord that normalize_event returns has a severity_num in
\* 0..7 and the label priority_to_label gives for that number, whatever the
\* source type and the data; constructing a LogRecord with a severity_num
\* outside 0..7 fails.
C25_SeverityConsistent ==
  /\ norm.op = "normalize" /\ norm.ok =>
       /\ norm.rec.severity_num \in 0..7
       /\ priority_to_label(norm.rec.severity_num).ok
       /\ norm.rec.severity_label = priority_to_label(norm.rec.severity_num).v
  /\ norm.op = "construct" =>
       /\ norm.ok <=> norm.severity_num \in 0..7
       /\ ~ norm.ok => norm.err = "ValueError" /\ norm.rec = NoRecord
       /\ norm.ok => norm.rec.severity_num = norm.severity_num

C25_Witness ==
  /\ norm.seq = 2
  /\ norm.op = "normalize"
  /\ norm.ok
  /\ norm.event.source_type = "file_jsonl"
  /\ norm.rec.severity_num = 3
  /\ norm.rec.severity_label = <<"E","R","R","O","R">>

\* ------------------------------------------------------------------------
\* engine.py: the limit of fetch_logs
\* ------------------------------------------------------------------------
\* fetch_logs runs on after the yield of its record number L
C26_StepAtCap ==
  /\ active = "fetch" /\ pc.fetch = "resumed" /\ pc'.fetch # "resumed"
  /\ LimitSet /\ LimitValue >= 1 /\ Len(fetched) = LimitValue

\* C26: with a limit L >= 1 fetch_logs advances source.read() at most L
\* times; once record number L was yielded, the next step of fetch_logs
\* closes the source (the child is terminated) and pulls no further raw
\* event.
C26_StopsAtCap ==
  /\ [](LimitSet /\ LimitValue >= 1 =>
          /\ Len(events) <= LimitValue
          /\ Len(fetched) <= LimitValue)
  /\ [][C26_StepAtCap =>
          /\ pc'.fetch = "done" /\ pc'.read = "closed"
          /\ events' = events /\ lines' = lines /\ fetched' = fetched
          /\ src'.closeCalls = src.closeCalls + 1
          /\ ~ src'.process
          /\ child'.state # "running"
          /\ child.state = "running" => child'.sigterm = child.sigterm + 1]_vars

\* the limit of 2 ended the fetch after two raw events, with lines of the
\* child still unread and the child terminated
C26_Witness ==
  /\ LimitSet /\ LimitValue = 2
  /\ pc.fetch = "done" /\ pc.read = "closed"
  /\ Len(fetched) = 2 /\ Len(events) = 2
  /\ src.closeCalls = 1 /\ child.sigterm = 1

\* ------------------------------------------------------------------------
\* filtering.py: laziness of filter_logs
\* ------------------------------------------------------------------------
\* the records the input of filter_logs has produced so far
C27_Produced == IF chain[2] = "list" THEN records.pos ELSE Len(fetched)

C27_Input(k) == IF chain[2] = "list" THEN records.items[k] ELSE fetched[k]

\* C27: filter_logs pulls no input record before its first output is asked
\* for; when it produces an output record it has pulled exactly the input
\* up to that record, and it is never more than the record in hand ahead of
\* what it has looked at; over fetch_logs, the source has then been read
\* up to the raw event of that record and no further.
C27_Lazy ==
  /\ pc.filter = "new" =>
       /\ C27_Produced = 0 /\ filt.pulled = 0 /\ out = <<>>
       /\ pc[chain[2]] = "new"
       /\ events = <<>> /\ lines = <<>> /\ child = NoChild
  /\ pc.filter = "yield" =>
       /\ out # <<>>
       /\ filt.pulled = C27_Produced
       /\ pc[chain[2]] = "yield"
       /\ out[Len(out)] = C27_Input(C27_Produced)
       /\ chain[2] = "fetch" => Len(events) = Len(fetched)
  /\ C27_Produced - filt.pulled \in {0, 1}
  /\ Len(out) <= filt.pulled
  /\ chain[2] = "fetch" => Len(events) - Len(fetched) \in {0, 1}

\* the second record of the source is the first output; the child has not
\* ended and the source is open
C27_Witness ==
  /\ chain[2] = "fetch"
  /\ pc.filter = "yield"
  /\ Len(out) = 1 /\ filt.pulled = 2
  /\ Len(events) = 2 /\ Len(fetched) = 2
  /\ child.state = "running" /\ src.process

\* ------------------------------------------------------------------------
\* sources/journalctl.py: read() and the pipes of the child
\* ------------------------------------------------------------------------
\* C28: read() on a source that does not follow always finishes, by ending
\* or by raising, when the child is one that exits once its writes are
\* taken: the parent never blocks forever while the child is blocked on a
\* write to a full stderr pipe that nobody reads.
C28_ReadFinishes == <>(pipe.parent \in {"done", "raised"})

\* ------------------------------------------------------------------------
\* normalize.py: level names of JSON-Lines entries
\* ------------------------------------------------------------------------
\* C29: for every string s that label_to_priority accepts (a canonical label
\* in any case, an alias, a digit string "0".."7"), normalizing a JSON-Lines
\* event whose level is s gives the severity_num label_to_priority(s).
C29_LevelAgrees ==
  ( /\ norm.op = "normalize" /\ norm.ok
    /\ norm.event.source_type = "file_jsonl"
    /\ norm.event.data.isdict
    /\ norm.event.data.level.t = "str"
    /\ label_to_priority(norm.event.data.level).ok )
  => norm.rec.severity_num = label_to_priority(norm.event.data.level).v

\* ------------------------------------------------------------------------
\* normalize.py: consistency of the counters
\* ------------------------------------------------------------------------
C30_Counted(name) == normStats'[name] - normStats[name]

\* C30: every call of normalize_event raises total by exactly 1 and each of
\* missing_priority, invalid_priority, missing_timestamp, missing_message by
\* at most 1, and never both missing_priority and invalid_priority; so after
\* any calls and resets each of the four counters is at most total, and so
\* is missing_priority + invalid_priority.
C30_CounterConsistency ==
  /\ [](/\ \A name \in {"missing_priority", "invalid_priority",
                        "missing_timestamp", "missing_message"} :
             normStats[name] \in 0..normStats.total
        /\ normStats.missing_priority + normStats.invalid_priority
             <= normStats.total)
  /\ [][NormalizeStep =>
          /\ C30_Counted("total") = 1
          /\ \A name \in {"missing_priority", "invalid_priority",
                          "missing_timestamp", "missing_message"} :
               C30_Counted(name) \in {0, 1}
          /\ C30_Counted("missing_priority") + C30_Counted("invalid_priority")
               <= 1]_vars

\* two calls, one entry without a priority and one with a priority int()
\* rejects or outside 0..7
C30_Witness ==
  /\ norm.seq = 2 /\ norm.op = "normalize"
  /\ normStats.total = 2
  /\ normStats.missing_priority = 1 /\ normStats.invalid_priority = 1

====
